---- MODULE Spec2Model ----
(***************************************************************************)
(* The fabric device selection engine of the DAOS agent                    *)
(* (src/control/cmd/daos_agent/fabric.go): the NUMAFabric inventory, its   *)
(* round-robin cursors, the device filter and the RWMutex guarding them,   *)
(* with GetDevice and Add run by concurrent callers.                       *)
(***************************************************************************)
EXTENDS Integers, Sequences, FiniteSets, TLC

(***************************************************************************)
(* Bounds of the model.                                                    *)
(***************************************************************************)
\* Longest run of consecutive identical GetDevice requests that is recorded.
MaxStreak == 4
\* Number of Add calls made after the builder has populated the engine.
MaxAdds == 1
\* Number of latest GetDevice picks that are recorded.
MaxMixed == 3

(***************************************************************************)
(* Program constants and value universes.                                  *)
(***************************************************************************)
\* hardware.NetDevClass is a uint32.  Its values are modelled as tokens, one
\* per value: only their equality is ever used, and 1 << 31 is beyond TLC's
\* integers.
\* fabric.go:67  FabricDevClassManual = hardware.NetDevClass(1 << 31)
FabricDevClassManual == "NetDevClass(1 << 31)"

\* The classes the fabric scan reports; the classes X and Y of the
\* specification.  NetDevClassZero is the zero value.
Ether == "ETHER"
Infiniband == "INFINIBAND"
NetDevClassZero == "NetDevClass(0)"
ScanClasses == {Ether, Infiniband}

\* fabric.go:92,94  filterModeExclude / filterModeInclude
filterModeExclude == 0
filterModeInclude == 1

\* The callers (worker threads) of the engine.
Threads == {"t1", "t2", "t3"}
NoThread == "none"

\* NUMA node ids that occur.
Nodes == {0, 1, 2}

\* Fabric providers that occur; "" is the empty provider string.
Providers == {"tcp", "verbs"}

(***************************************************************************)
(* FabricInterface (fabric.go:30-35).  hw is the hardware.FabricInterface  *)
(* the scan attached (its provider set), or Nil for a device built from    *)
(* the static configuration.                                               *)
(***************************************************************************)
FabricInterface(name, domain, class, hw) ==
    [Name |-> name, Domain |-> domain, NetDevClass |-> class, hw |-> hw]

\* The hw pointer: nil, or a hardware.FabricInterface with its Providers.
NilHW == [isNil |-> TRUE, Providers |-> {}]
HW(provs) == [isNil |-> FALSE, Providers |-> provs]

\* hardware.FabricInterface.SupportsProvider: membership in the provider
\* set; a nil receiver supports nothing.
SupportsProvider(hw, provider) ==
    /\ ~hw.isNil
    /\ provider \in hw.Providers

\* fabric.go:61-63
HasProvider(fi, provider) == SupportsProvider(fi.hw, provider)

\* fabric.go:483-497  one FabricInterface per OS interface name of a scanned
\* hardware interface: domain = the hardware interface's name.
ScanFI(netIF, hwName, class, provs) ==
    FabricInterface(netIF, hwName, class, HW(provs))

\* fabric.go:506-513  a device of the static configuration: class forced to
\* Manual, no hardware description, domain defaulted to the name.
ConfigFI(iface, domain) ==
    FabricInterface(iface, IF domain = "" THEN iface ELSE domain,
                    FabricDevClassManual, NilHW)

(***************************************************************************)
(* deviceFilter (fabric.go:97-117).  A *deviceFilter is nil or points to a *)
(* (deviceSet, mode) pair; the deviceSet (a Go map) is itself nil or a set *)
(* of names.                                                               *)
(***************************************************************************)
NilFilter == [isNil |-> TRUE, setNil |-> TRUE, deviceSet |-> {}, mode |-> filterModeExclude]

\* fabric.go:112-117
newDeviceFilter(deviceSet, mode) ==
    [isNil |-> FALSE, setNil |-> FALSE, deviceSet |-> deviceSet, mode |-> mode]

\* ShouldIgnore with the two modes taken for each other.
ShouldIgnoreSwapped(df, devName) ==
    IF df.isNil \/ df.setNil
    THEN FALSE
    ELSE IF df.mode = filterModeExclude
         THEN devName \notin df.deviceSet
         ELSE devName \in df.deviceSet

\* ShouldIgnore without the test for a nil device set.
ShouldIgnoreNoSetCheck(df, devName) ==
    IF df.isNil
    THEN FALSE
    ELSE IF df.mode = filterModeExclude
         THEN devName \in df.deviceSet
         ELSE devName \notin df.deviceSet

\* fabric.go:102-110
ShouldIgnore(df, devName) ==
    IF df.isNil \/ df.setNil
    THEN FALSE
    ELSE IF df.mode = filterModeExclude
         THEN devName \in df.deviceSet
         ELSE devName \notin df.deviceSet

(***************************************************************************)
(* Errors: nil is the empty tuple.                                         *)
(***************************************************************************)
NoErr == <<>>

\* errors.New(msg)
ErrNew(msg) == <<msg>>

\* fabric.go:25-27
FabricNotFoundErr(netDevClass) ==
    <<"no suitable fabric interface found of type", netDevClass>>

(***************************************************************************)
(* FabricIfaceParams (fabric.go:220-226); a nil *FabricIfaceParams has     *)
(* isNil set.                                                              *)
(***************************************************************************)
FabricIfaceParams(iface, domain, provider, class, node) ==
    [isNil |-> FALSE, Interface |-> iface, Domain |-> domain,
     Provider |-> provider, DevClass |-> class, NUMANode |-> node]

NilParams ==
    [isNil |-> TRUE, Interface |-> "", Domain |-> "",
     Provider |-> "", DevClass |-> NetDevClassZero, NUMANode |-> 0]

(***************************************************************************)
(* The state: the NUMAFabric (fabric.go:120-131), the OS's network         *)
(* interfaces that getAddrInterface reads, and the callers.                *)
(***************************************************************************)
VARIABLES
    numaMap,            \* NUMAFabricMap: node id -> sequence of FabricInterface
    currentNumaDevIdx,  \* map[int]int: node id -> next device index
    currentNUMANode,    \* cross-node cursor
    ifaceFilter,        \* *deviceFilter
    mutex,              \* sync.RWMutex: its writer and its readers
    netInterfaces,      \* OS state: interface name -> lookup error and addresses
    pc,                 \* each caller's position
    frame,              \* each caller's call frame: arguments, locals, result
    watch,              \* the request whose consecutive calls are recorded
    streak,             \* the latest run of GetDevice calls with that request
    nAdds,              \* Add calls made so far
    numaMapNil,         \* numaMap == nil: a NUMAFabric no builder has made
    agent,              \* the agent's start-up: its configuration and phase
    lastFallback,       \* node of the device the last successful fallback found
    mixed               \* the latest GetDevice picks on the watched node

engine == <<numaMap, numaMapNil, currentNumaDevIdx, currentNUMANode, ifaceFilter>>
vars == <<numaMap, numaMapNil, currentNumaDevIdx, currentNUMANode, ifaceFilter,
          mutex, netInterfaces, pc, frame, watch, streak, nAdds, agent,
          lastFallback, mixed>>

\* fabric.go:168-173
getNumDevices(map, numaNode) ==
    IF numaNode \in DOMAIN map THEN Len(map[numaNode]) ELSE 0

\* fabric.go:187-189
getNumNUMANodes(map) == Cardinality(DOMAIN map)

\* sort.Ints over a set of keys
RECURSIVE SortInts(_)
SortInts(keys) ==
    IF keys = {}
    THEN <<>>
    ELSE LET min == CHOOSE k \in keys : \A j \in keys : k <= j
         IN <<min>> \o SortInts(keys \ {min})

\* getNUMANodes taking the node ids to be 0 .. numNodes-1.
getNUMANodesDense(map) == [k \in 1..Cardinality(DOMAIN map) |-> k - 1]

\* fabric.go:347-354
getNUMANodes(map) == SortInts(DOMAIN map)

\* Reading a Go map[int]int: the zero value for a missing key.
DevIdx(idxMap, numaNode) ==
    IF numaNode \in DOMAIN idxMap THEN idxMap[numaNode] ELSE 0

\* Writing a Go map: the key is added when missing.
MapPut(m, k, v) == [x \in DOMAIN m \cup {k} |-> IF x = k THEN v ELSE m[x]]

(***************************************************************************)
(* validateDevice (fabric.go:302-325).  netInterfaces[name] is what        *)
(* net.InterfaceByName(name) and Addrs() yield: an error of either call,   *)
(* or the addresses.  An address passes when it is an *net.IPNet whose IP  *)
(* is set and not the unspecified address.                                 *)
(***************************************************************************)
Addr(isIPNet, ipNil, unspecified) ==
    [isIPNet |-> isIPNet, ipNil |-> ipNil, unspecified |-> unspecified]

\* validateDevice looking at the first address only.
validateDeviceFirstAddr(ifs, fi) ==
    LET nif == ifs[fi.Name]
    IN IF nif.lookupErr # NoErr
       THEN nif.lookupErr
       ELSE IF nif.addrsErr # NoErr
            THEN nif.addrsErr
            ELSE IF /\ nif.addrs # <<>>
                    /\ nif.addrs[1].isIPNet
                    /\ ~nif.addrs[1].ipNil
                    /\ ~nif.addrs[1].unspecified
                 THEN NoErr
                 ELSE ErrNew("no IP addresses for fabric interface")

\* validateDevice without the IsUnspecified test.
validateDeviceAnyIP(ifs, fi) ==
    LET nif == ifs[fi.Name]
    IN IF nif.lookupErr # NoErr
       THEN nif.lookupErr
       ELSE IF nif.addrsErr # NoErr
            THEN nif.addrsErr
            ELSE IF \E k \in 1..Len(nif.addrs) :
                       nif.addrs[k].isIPNet /\ ~nif.addrs[k].ipNil
                 THEN NoErr
                 ELSE ErrNew("no IP addresses for fabric interface")

validateDevice(ifs, fi) ==
    LET nif == ifs[fi.Name]
    IN IF nif.lookupErr # NoErr
       THEN nif.lookupErr
       ELSE IF nif.addrsErr # NoErr
            THEN nif.addrsErr
            ELSE IF \E k \in 1..Len(nif.addrs) :
                       /\ nif.addrs[k].isIPNet
                       /\ ~nif.addrs[k].ipNil
                       /\ ~nif.addrs[k].unspecified
                 THEN NoErr
                 ELSE ErrNew("no IP addresses for fabric interface")

(***************************************************************************)
(* Call frames.  fi is the returned *FabricInterface (empty: nil), err the *)
(* returned error.  probed / validated are the names validateDevice was    *)
(* called with / succeeded for during the call, examined counts the loop   *)
(* iterations of getDeviceFromNUMA, and pre is the engine as the call      *)
(* found it when it took the lock.  fiList is the list Find and FindDevice *)
(* return; refs tells, for each returned entity, what the returned pointer *)
(* points to: a new object (the empty tuple) or the inventory entry at     *)
(* <<node, index>>.  visited are the nodes findOnAnyNUMA scanned, and      *)
(* prevFallback is lastFallback as the call found it.  count is the result *)
(* of NumDevices / NumNUMANodes, and raced tells that Find read the map    *)
(* while a holder of the exclusive lock was about to write it.  locked /   *)
(* rlocked tell that the call holds the lock exclusively / shared.         *)
(***************************************************************************)
\* No node: before the first successful fallback.
NoNode == 0 - 1

NoSnapshot == [numaMap |-> <<>>, currentNumaDevIdx |-> <<>>, currentNUMANode |-> 0]

Snapshot == [numaMap |-> numaMap, currentNumaDevIdx |-> currentNumaDevIdx,
             currentNUMANode |-> currentNUMANode]

IdleFrame ==
    [op |-> "", recvNil |-> FALSE, params |-> NilParams,
     addNode |-> 0, addFI |-> <<>>, locked |-> FALSE,
     numaNode |-> 0, checked |-> 0, deviceIndex |-> 0,
     inAny |-> FALSE, i |-> 0, nodes |-> <<>>,
     fi |-> <<>>, err |-> NoErr,
     probed |-> {}, validated |-> {}, examined |-> 0, pre |-> NoSnapshot,
     fiList |-> <<>>, refs |-> <<>>, visited |-> <<>>, prevFallback |-> NoNode,
     count |-> 0, raced |-> FALSE, name |-> "", rlocked |-> FALSE]

NoStreak == [start |-> NoSnapshot, picks |-> <<>>]

\* The record of picks: kept (on) or not.
MixedOff == [on |-> FALSE, calls |-> <<>>]
MixedOn == [on |-> TRUE, calls |-> <<>>]

\* sync.RWMutex: Lock succeeds when no writer and no reader holds it.
MutexFree == mutex.writer = NoThread /\ mutex.readers = {}

\* Lock that does not wait for the holder.
MutexLockNoWait(t) == mutex' = [mutex EXCEPT !.writer = t]

\* fabric.go:242 / 139  n.mutex.Lock()
MutexLock(t) ==
    /\ MutexFree
    /\ mutex' = [mutex EXCEPT !.writer = t]

\* fabric.go:243 / 140  the deferred n.mutex.Unlock()
MutexUnlock(t) == mutex' = [mutex EXCEPT !.writer = NoThread]

(***************************************************************************)
(* GetDevice (fabric.go:229-256).                                          *)
(***************************************************************************)
\* GetDevice without the test of the provider.
GetDeviceNoProviderCheck(t, recvNil, params) ==
    /\ pc[t] = "idle"
    /\ LET call == [IdleFrame EXCEPT !.op = "GetDevice", !.recvNil = recvNil,
                                     !.params = params]
       IN IF recvNil
          THEN /\ frame' = [frame EXCEPT ![t] = [call EXCEPT !.err = ErrNew("nil NUMAFabric")]]
               /\ pc' = [pc EXCEPT ![t] = "ret"]
          ELSE IF params.isNil
          THEN /\ frame' = [frame EXCEPT ![t] = [call EXCEPT !.err = ErrNew("nil FabricIfaceParams")]]
               /\ pc' = [pc EXCEPT ![t] = "ret"]
          ELSE /\ frame' = [frame EXCEPT ![t] = call]
               /\ pc' = [pc EXCEPT ![t] = "lock"]
    /\ UNCHANGED <<engine, mutex, netInterfaces, watch, streak, nAdds, agent,
                   lastFallback, mixed>>

\* fabric.go:229-240  the argument checks, before the lock is taken
GetDevice(t, recvNil, params) ==
    /\ pc[t] = "idle"
    /\ LET call == [IdleFrame EXCEPT !.op = "GetDevice", !.recvNil = recvNil,
                                     !.params = params]
       IN IF recvNil
          THEN /\ frame' = [frame EXCEPT ![t] = [call EXCEPT !.err = ErrNew("nil NUMAFabric")]]
               /\ pc' = [pc EXCEPT ![t] = "ret"]
          ELSE IF params.isNil
          THEN /\ frame' = [frame EXCEPT ![t] = [call EXCEPT !.err = ErrNew("nil FabricIfaceParams")]]
               /\ pc' = [pc EXCEPT ![t] = "ret"]
          ELSE IF params.Provider = ""
          THEN /\ frame' = [frame EXCEPT ![t] = [call EXCEPT !.err = ErrNew("provider is required")]]
               /\ pc' = [pc EXCEPT ![t] = "ret"]
          ELSE /\ frame' = [frame EXCEPT ![t] = call]
               /\ pc' = [pc EXCEPT ![t] = "lock"]
    /\ UNCHANGED <<engine, mutex, netInterfaces, watch, streak, nAdds, agent,
                   lastFallback, mixed>>

\* fabric.go:242-245  take the lock and enter getDeviceFromNUMA for the
\* requested node
GetDeviceLock(t) ==
    /\ pc[t] = "lock"
    /\ MutexLock(t)
    /\ frame' = [frame EXCEPT ![t].locked = TRUE,
                              ![t].numaNode = frame[t].params.NUMANode,
                              ![t].checked = 0,
                              ![t].pre = Snapshot,
                              ![t].prevFallback = lastFallback]
    /\ pc' = [pc EXCEPT ![t] = "scan"]
    /\ UNCHANGED <<engine, netInterfaces, watch, streak, nAdds, agent, lastFallback,
                   mixed>>

\* fabric.go:265-266, 328, 358-364  the loop test of getDeviceFromNUMA and
\* getNextDevIndex's read of the node's cursor; when the loop ends without
\* a device, getDeviceFromNUMA returns its error: GetDevice goes on to
\* findOnAnyNUMA (250, 333-334) and findOnAnyNUMA to its next node.
GetDeviceScan(t) ==
    /\ pc[t] = "scan"
    /\ LET f == frame[t]
       IN IF f.checked < getNumDevices(numaMap, f.numaNode)
          THEN /\ frame' = [frame EXCEPT ![t].deviceIndex =
                                DevIdx(currentNumaDevIdx, f.numaNode)]
               /\ pc' = [pc EXCEPT ![t] = "advance"]
          ELSE IF ~f.inAny
          THEN /\ frame' = [frame EXCEPT ![t].inAny = TRUE,
                                         ![t].nodes = getNUMANodes(numaMap),
                                         ![t].i = 0]
               /\ pc' = [pc EXCEPT ![t] = "any"]
          ELSE /\ frame' = [frame EXCEPT ![t].i = f.i + 1]
               /\ pc' = [pc EXCEPT ![t] = "any"]
    /\ UNCHANGED <<engine, mutex, netInterfaces, watch, streak, nAdds, agent,
                   lastFallback, mixed>>

\* getNextDevIndex leaving the cursor where it is.
NextDevIndexStuck(deviceIndex, numDevs) == deviceIndex

\* getNextDevIndex stepping the cursor without wrapping it.
NextDevIndexNoWrap(deviceIndex, numDevs) == deviceIndex + 1

\* fabric.go:365  (deviceIndex + 1) % numDevs
NextDevIndex(deviceIndex, numDevs) == (deviceIndex + 1) % numDevs

\* Excluded with the provider test left out.
ExcludedClassOnly(fabricIF, netDevClass, provider) ==
    /\ fabricIF.NetDevClass # FabricDevClassManual
    /\ fabricIF.NetDevClass # netDevClass

\* Excluded with the Manual bypass left out.
ExcludedNoBypass(fabricIF, netDevClass, provider) ==
    \/ fabricIF.NetDevClass # netDevClass
    \/ ~HasProvider(fabricIF, provider)

\* fabric.go:273-284  a device that is not Manual is excluded when its class
\* is not the requested one or it lacks the requested provider.
Excluded(fabricIF, netDevClass, provider) ==
    /\ fabricIF.NetDevClass # FabricDevClassManual
    /\ \/ fabricIF.NetDevClass # netDevClass
       \/ ~HasProvider(fabricIF, provider)

\* copyFI handing out the pointer it was given.
copyFIAlias(fi, at) == [val |-> fi, ref |-> at]

\* fabric.go:258-262  copyFI: a new FabricInterface holding the fields of the
\* entry; at is where the entry sits in the inventory.
copyFI(fi, at) == [val |-> fi, ref |-> <<>>]

\* fabric.go:365-366, 329, 268-291  getNextDevIndex advances the cursor, then
\* the device at the index read is tested: filter, class, provider, liveness.
GetDeviceAdvance(t) ==
    /\ pc[t] = "advance"
    /\ LET f == frame[t]
           numDevs == getNumDevices(numaMap, f.numaNode)
           fabricIF == numaMap[f.numaNode][f.deviceIndex + 1]
           verr == validateDevice(netInterfaces, fabricIF)
           skip == [f EXCEPT !.checked = f.checked + 1, !.examined = f.examined + 1]
           copy == copyFI(fabricIF, <<f.numaNode, f.deviceIndex>>)
       IN /\ currentNumaDevIdx' =
                 MapPut(currentNumaDevIdx, f.numaNode, NextDevIndex(f.deviceIndex, numDevs))
          /\ IF ShouldIgnore(ifaceFilter, fabricIF.Name)
             THEN /\ frame' = [frame EXCEPT ![t] = skip]
                  /\ pc' = [pc EXCEPT ![t] = "scan"]
                  /\ UNCHANGED lastFallback
             ELSE IF Excluded(fabricIF, f.params.DevClass, f.params.Provider)
             THEN /\ frame' = [frame EXCEPT ![t] = skip]
                  /\ pc' = [pc EXCEPT ![t] = "scan"]
                  /\ UNCHANGED lastFallback
             ELSE IF verr # NoErr
             THEN /\ frame' = [frame EXCEPT ![t] =
                                 [skip EXCEPT !.probed = f.probed \cup {fabricIF.Name}]]
                  /\ pc' = [pc EXCEPT ![t] = "scan"]
                  /\ UNCHANGED lastFallback
             ELSE /\ frame' = [frame EXCEPT ![t] =
                                 [f EXCEPT !.examined = f.examined + 1,
                                           !.probed = f.probed \cup {fabricIF.Name},
                                           !.validated = f.validated \cup {fabricIF.Name},
                                           !.fi = <<copy.val>>,
                                           !.refs = <<copy.ref>>]]
                  /\ pc' = [pc EXCEPT ![t] = "ret"]
                  /\ lastFallback' = IF f.inAny THEN f.numaNode ELSE lastFallback
    /\ UNCHANGED <<numaMap, numaMapNil, currentNUMANode, ifaceFilter, mutex,
                   netInterfaces, watch, streak, nAdds, agent, mixed>>

\* findOnAnyNUMA starting each node it turns to from that node's first device.
GetDeviceAnyNUMAFromStart(t) ==
    /\ pc[t] = "any"
    /\ LET f == frame[t]
           numNodes == Len(f.nodes)
           next == (currentNUMANode + 1) % numNodes
       IN IF f.i < numNodes
          THEN /\ currentNUMANode' = next
               /\ currentNumaDevIdx' = MapPut(currentNumaDevIdx, f.nodes[next + 1], 0)
               /\ frame' = [frame EXCEPT ![t].numaNode = f.nodes[next + 1],
                                         ![t].checked = 0,
                                         ![t].visited = Append(f.visited, f.nodes[next + 1])]
               /\ pc' = [pc EXCEPT ![t] = "scan"]
          ELSE /\ frame' = [frame EXCEPT ![t].err = FabricNotFoundErr(f.params.DevClass)]
               /\ pc' = [pc EXCEPT ![t] = "ret"]
               /\ UNCHANGED <<currentNUMANode, currentNumaDevIdx>>
    /\ UNCHANGED <<numaMap, numaMapNil, ifaceFilter, mutex,
                   netInterfaces, watch, streak, nAdds, agent, lastFallback, mixed>>

\* fabric.go:336-338, 344  findOnAnyNUMA's loop: step the cross-node cursor
\* and scan the node it designates, or give up after numNodes nodes.
GetDeviceAnyNUMA(t) ==
    /\ pc[t] = "any"
    /\ LET f == frame[t]
           numNodes == Len(f.nodes)
           next == (currentNUMANode + 1) % numNodes
       IN IF f.i < numNodes
          THEN /\ currentNUMANode' = next
               /\ frame' = [frame EXCEPT ![t].numaNode = f.nodes[next + 1],
                                         ![t].checked = 0,
                                         ![t].visited = Append(f.visited, f.nodes[next + 1])]
               /\ pc' = [pc EXCEPT ![t] = "scan"]
          ELSE /\ frame' = [frame EXCEPT ![t].err = FabricNotFoundErr(f.params.DevClass)]
               /\ pc' = [pc EXCEPT ![t] = "ret"]
               /\ UNCHANGED currentNUMANode
    /\ UNCHANGED <<numaMap, numaMapNil, currentNumaDevIdx, ifaceFilter, mutex,
                   netInterfaces, watch, streak, nAdds, agent, lastFallback, mixed>>

(***************************************************************************)
(* Add (fabric.go:134-144).                                                *)
(***************************************************************************)
\* fabric.go:134-137  the nil check, before the lock is taken
Add(t, recvNil, numaNode, fi) ==
    /\ pc[t] = "idle"
    /\ nAdds < MaxAdds
    /\ nAdds' = nAdds + 1
    /\ LET call == [IdleFrame EXCEPT !.op = "Add", !.recvNil = recvNil,
                                     !.addNode = numaNode, !.addFI = <<fi>>]
       IN IF recvNil
          THEN /\ frame' = [frame EXCEPT ![t] = [call EXCEPT !.err = ErrNew("nil NUMAFabric")]]
               /\ pc' = [pc EXCEPT ![t] = "ret"]
          ELSE /\ frame' = [frame EXCEPT ![t] = call]
               /\ pc' = [pc EXCEPT ![t] = "addLock"]
    /\ UNCHANGED <<engine, mutex, netInterfaces, watch, streak, agent, lastFallback,
                   mixed>>

\* fabric.go:139
AddLock(t) ==
    /\ pc[t] = "addLock"
    /\ MutexLock(t)
    /\ frame' = [frame EXCEPT ![t].locked = TRUE, ![t].pre = Snapshot]
    /\ pc' = [pc EXCEPT ![t] = "append"]
    /\ UNCHANGED <<engine, netInterfaces, watch, streak, nAdds, agent, lastFallback,
                   mixed>>

\* Add putting the entity at the head of the node's list.
AddAppendFront(t) ==
    /\ pc[t] = "append"
    /\ LET f == frame[t]
           old == IF f.addNode \in DOMAIN numaMap THEN numaMap[f.addNode] ELSE <<>>
       IN IF numaMapNil
          THEN /\ frame' = [frame EXCEPT ![t].err =
                                ErrNew("panic: assignment to entry in nil map")]
               /\ UNCHANGED <<numaMap, streak, mixed>>
          ELSE /\ numaMap' = MapPut(numaMap, f.addNode, f.addFI \o old)
               /\ streak' = NoStreak
               /\ mixed' = [mixed EXCEPT !.calls = <<>>]
               /\ UNCHANGED frame
    /\ pc' = [pc EXCEPT ![t] = "ret"]
    /\ UNCHANGED <<numaMapNil, currentNumaDevIdx, currentNUMANode, ifaceFilter,
                   mutex, netInterfaces, watch, nAdds, agent, lastFallback>>

\* fabric.go:142  n.numaMap[numaNode] = append(n.numaMap[numaNode], fi); the
\* assignment panics when numaMap is nil, and the deferred Unlock then runs
\* as the panic unwinds.
AddAppend(t) ==
    /\ pc[t] = "append"
    /\ LET f == frame[t]
           old == IF f.addNode \in DOMAIN numaMap THEN numaMap[f.addNode] ELSE <<>>
       IN IF numaMapNil
          THEN /\ frame' = [frame EXCEPT ![t].err =
                                ErrNew("panic: assignment to entry in nil map")]
               /\ UNCHANGED <<numaMap, streak, mixed>>
          ELSE /\ numaMap' = MapPut(numaMap, f.addNode, old \o f.addFI)
               /\ streak' = NoStreak
               /\ mixed' = [mixed EXCEPT !.calls = <<>>]
               /\ UNCHANGED frame
    /\ pc' = [pc EXCEPT ![t] = "ret"]
    /\ UNCHANGED <<numaMapNil, currentNumaDevIdx, currentNUMANode, ifaceFilter,
                   mutex, netInterfaces, watch, nAdds, agent, lastFallback>>

(***************************************************************************)
(* The read accessors NumDevices and NumNUMANodes (fabric.go:157-189) and  *)
(* the scoped map accessors RLockedMap and LockedMap (fabric.go:192-217).  *)
(***************************************************************************)
\* RLock succeeds when no writer holds the mutex.
MutexRLock(t) ==
    /\ mutex.writer = NoThread
    /\ mutex' = [mutex EXCEPT !.readers = mutex.readers \cup {t}]

MutexRUnlock(t) == mutex' = [mutex EXCEPT !.readers = mutex.readers \ {t}]

\* fabric.go:157-160  NumDevices: a nil engine has 0 devices
NumDevices(t, recvNil, numaNode) ==
    /\ pc[t] = "idle"
    /\ frame' = [frame EXCEPT ![t] = [IdleFrame EXCEPT !.op = "NumDevices",
                                                       !.recvNil = recvNil,
                                                       !.numaNode = numaNode]]
    /\ pc' = [pc EXCEPT ![t] = IF recvNil THEN "ret" ELSE "rlock"]
    /\ UNCHANGED <<engine, mutex, netInterfaces, watch, streak, nAdds, agent,
                   lastFallback, mixed>>

\* fabric.go:176-179  NumNUMANodes: a nil engine has 0 nodes
NumNUMANodes(t, recvNil) ==
    /\ pc[t] = "idle"
    /\ frame' = [frame EXCEPT ![t] = [IdleFrame EXCEPT !.op = "NumNUMANodes",
                                                       !.recvNil = recvNil]]
    /\ pc' = [pc EXCEPT ![t] = IF recvNil THEN "ret" ELSE "rlock"]
    /\ UNCHANGED <<engine, mutex, netInterfaces, watch, streak, nAdds, agent,
                   lastFallback, mixed>>

\* fabric.go:162, 181  n.mutex.RLock()
CountRLock(t) ==
    /\ pc[t] = "rlock"
    /\ MutexRLock(t)
    /\ frame' = [frame EXCEPT ![t].rlocked = TRUE]
    /\ pc' = [pc EXCEPT ![t] = "count"]
    /\ UNCHANGED <<engine, netInterfaces, watch, streak, nAdds, agent, lastFallback,
                   mixed>>

\* fabric.go:165, 184  the count, read under the shared lock
CountRead(t) ==
    /\ pc[t] = "count"
    /\ frame' = [frame EXCEPT ![t].count =
                     IF frame[t].op = "NumDevices"
                     THEN getNumDevices(numaMap, frame[t].numaNode)
                     ELSE getNumNUMANodes(numaMap)]
    /\ pc' = [pc EXCEPT ![t] = "rret"]
    /\ UNCHANGED <<engine, mutex, netInterfaces, watch, streak, nAdds, agent,
                   lastFallback, mixed>>

\* fabric.go:163, 182  the deferred n.mutex.RUnlock() and the return
ReturnShared(t) ==
    /\ pc[t] = "rret"
    /\ MutexRUnlock(t)
    /\ pc' = [pc EXCEPT ![t] = "idle"]
    /\ frame' = [frame EXCEPT ![t] = IdleFrame]
    /\ UNCHANGED <<engine, netInterfaces, watch, streak, nAdds, agent, lastFallback,
                   mixed>>

\* fabric.go:192-195, 206-209  RLockedMap / LockedMap: the nil check
LockedMap(t, recvNil, shared) ==
    /\ pc[t] = "idle"
    /\ LET call == [IdleFrame EXCEPT !.op = IF shared THEN "RLockedMap" ELSE "LockedMap",
                                     !.recvNil = recvNil]
       IN IF recvNil
          THEN /\ frame' = [frame EXCEPT ![t] = [call EXCEPT !.err = ErrNew("nil NUMAFabric")]]
               /\ pc' = [pc EXCEPT ![t] = "ret"]
          ELSE /\ frame' = [frame EXCEPT ![t] = call]
               /\ pc' = [pc EXCEPT ![t] = "mapLock"]
    /\ UNCHANGED <<engine, mutex, netInterfaces, watch, streak, nAdds, agent,
                   lastFallback, mixed>>

\* fabric.go:197, 211  n.mutex.RLock() / n.mutex.Lock()
LockedMapLock(t) ==
    /\ pc[t] = "mapLock"
    /\ IF frame[t].op = "RLockedMap"
       THEN /\ MutexRLock(t)
            /\ frame' = [frame EXCEPT ![t].rlocked = TRUE]
       ELSE /\ MutexLock(t)
            /\ frame' = [frame EXCEPT ![t].locked = TRUE]
    /\ pc' = [pc EXCEPT ![t] = "mapCheck"]
    /\ UNCHANGED <<engine, netInterfaces, watch, streak, nAdds, agent, lastFallback,
                   mixed>>

\* The test of numaMap returning its error with the lock still held.
LockedMapCheckKeepsLock(t) ==
    /\ pc[t] = "mapCheck"
    /\ IF numaMapNil
       THEN /\ frame' = [frame EXCEPT ![t].err = ErrNew("NUMAFabric is uninitialized"),
                                      ![t].locked = FALSE,
                                      ![t].rlocked = FALSE]
            /\ pc' = [pc EXCEPT ![t] = "ret"]
       ELSE /\ pc' = [pc EXCEPT ![t] = "hold"]
            /\ UNCHANGED frame
    /\ UNCHANGED <<engine, mutex, netInterfaces, watch, streak, nAdds, agent,
                   lastFallback, mixed>>

\* fabric.go:198-202, 212-216  a nil numaMap: unlock and return the error;
\* else return the map and the unlock function, with the lock held
LockedMapCheck(t) ==
    /\ pc[t] = "mapCheck"
    /\ IF numaMapNil
       THEN /\ IF frame[t].op = "RLockedMap" THEN MutexRUnlock(t) ELSE MutexUnlock(t)
            /\ frame' = [frame EXCEPT ![t].err = ErrNew("NUMAFabric is uninitialized"),
                                      ![t].locked = FALSE,
                                      ![t].rlocked = FALSE]
            /\ pc' = [pc EXCEPT ![t] = "ret"]
       ELSE /\ pc' = [pc EXCEPT ![t] = "hold"]
            /\ UNCHANGED <<frame, mutex>>
    /\ UNCHANGED <<engine, netInterfaces, watch, streak, nAdds, agent, lastFallback,
                   mixed>>

\* The caller invokes the release function it was handed: n.mutex.RUnlock
\* or n.mutex.Unlock (fabric.go:202, 216).
Release(t) ==
    /\ pc[t] = "hold"
    /\ frame[t].op \in {"LockedMap", "RLockedMap"}
    /\ IF frame[t].op = "RLockedMap" THEN MutexRUnlock(t) ELSE MutexUnlock(t)
    /\ pc' = [pc EXCEPT ![t] = "idle"]
    /\ frame' = [frame EXCEPT ![t] = IdleFrame]
    /\ UNCHANGED <<engine, netInterfaces, watch, streak, nAdds, agent, lastFallback,
                   mixed>>

(***************************************************************************)
(* Find and FindDevice (fabric.go:374-445).  Neither takes the lock.  The  *)
(* entities they handle are kept with what their pointers point to:        *)
(* [val, ref] as copyFI gives them.                                        *)
(***************************************************************************)
\* The inner loop leaving a node at its first match.
RECURSIVE FindOnNodeFirst(_, _, _, _)
FindOnNodeFirst(devs, node, name, k) ==
    IF k > Len(devs)
    THEN <<>>
    ELSE IF devs[k].Name = name
         THEN <<copyFI(devs[k], <<node, k - 1>>)>>
         ELSE FindOnNodeFirst(devs, node, name, k + 1)

\* fabric.go:380-386  the inner loop over one node's devices, from index k
RECURSIVE FindOnNode(_, _, _, _)
FindOnNode(devs, node, name, k) ==
    IF k > Len(devs)
    THEN <<>>
    ELSE (IF devs[k].Name = name
          THEN <<copyFI(devs[k], <<node, k - 1>>)>>
          ELSE <<>>) \o FindOnNode(devs, node, name, k + 1)

\* fabric.go:379-387  the outer loop; order is the order in which the range
\* over the Go map yields its keys.
RECURSIVE FindIn(_, _, _)
FindIn(map, order, name) ==
    IF order = <<>>
    THEN <<>>
    ELSE FindOnNode(map[Head(order)], Head(order), name, 1)
             \o FindIn(map, Tail(order), name)

\* The orders in which a range over a map with the given keys may run.
RangeOrders(keys) ==
    {o \in [1..Cardinality(keys) -> keys] :
        \A i, j \in 1..Cardinality(keys) : i # j => o[i] # o[j]}

\* filterDomain without the case of an entry that has no domain.
filterDomainExact(domain, fiList) ==
    SelectSeq(fiList, LAMBDA c : c.val.Domain = domain)

\* fabric.go:427-435
filterDomain(domain, fiList) ==
    SelectSeq(fiList, LAMBDA c : \/ c.val.Domain = domain
                                 \/ (c.val.Name = domain /\ c.val.Domain = ""))

\* filterProvider without the Manual bypass.
filterProviderNoManual(provider, fiList) ==
    SelectSeq(fiList, LAMBDA c : HasProvider(c.val, provider))

\* fabric.go:437-445
filterProvider(provider, fiList) ==
    SelectSeq(fiList, LAMBDA c : \/ HasProvider(c.val, provider)
                                 \/ c.val.NetDevClass = FabricDevClassManual)

\* fabric.go:389-392  Find's result for the entries found
FindResult(found, name) ==
    IF Len(found) > 0
    THEN [fiList |-> found, err |-> NoErr]
    ELSE [fiList |-> <<>>, err |-> <<"fabric interface not found", name>>]

\* fabric.go:403-424  FindDevice after its call of Find
FindDeviceResult(res, params) ==
    IF res.err # NoErr
    THEN res
    ELSE LET byDomain == IF params.Domain # ""
                         THEN filterDomain(params.Domain, res.fiList)
                         ELSE res.fiList
             byProvider == IF params.Provider # ""
                           THEN filterProvider(params.Provider, byDomain)
                           ELSE byDomain
         IN IF params.Domain # "" /\ Len(byDomain) = 0
            THEN [fiList |-> <<>>,
                  err |-> <<"fabric interface doesn't have requested domain",
                            params.Interface, params.Domain>>]
            ELSE IF params.Provider # "" /\ Len(byProvider) = 0
            THEN [fiList |-> <<>>,
                  err |-> <<"fabric interface doesn't support provider",
                            params.Interface, params.Provider>>]
            ELSE [fiList |-> byProvider, err |-> NoErr]

\* fabric.go:374-377  Find: the nil check
Find(t, recvNil, name) ==
    /\ pc[t] = "idle"
    /\ LET call == [IdleFrame EXCEPT !.op = "Find", !.recvNil = recvNil, !.name = name]
       IN IF recvNil
          THEN /\ frame' = [frame EXCEPT ![t] = [call EXCEPT !.err = ErrNew("nil NUMAFabric")]]
               /\ pc' = [pc EXCEPT ![t] = "ret"]
          ELSE /\ frame' = [frame EXCEPT ![t] = call]
               /\ pc' = [pc EXCEPT ![t] = "find"]
    /\ UNCHANGED <<engine, mutex, netInterfaces, watch, streak, nAdds, agent,
                   lastFallback, mixed>>

\* fabric.go:398-406  FindDevice: the nil check of params, then Find's nil
\* check of the engine
FindDevice(t, recvNil, params) ==
    /\ pc[t] = "idle"
    /\ LET call == [IdleFrame EXCEPT !.op = "FindDevice", !.recvNil = recvNil,
                                     !.params = params, !.name = params.Interface]
       IN IF params.isNil
          THEN /\ frame' = [frame EXCEPT ![t] = [call EXCEPT !.err = ErrNew("nil FabricIfaceParams")]]
               /\ pc' = [pc EXCEPT ![t] = "ret"]
          ELSE IF recvNil
          THEN /\ frame' = [frame EXCEPT ![t] = [call EXCEPT !.err = ErrNew("nil NUMAFabric")]]
               /\ pc' = [pc EXCEPT ![t] = "ret"]
          ELSE /\ frame' = [frame EXCEPT ![t] = call]
               /\ pc' = [pc EXCEPT ![t] = "find"]
    /\ UNCHANGED <<engine, mutex, netInterfaces, watch, streak, nAdds, agent,
                   lastFallback, mixed>>

\* The inventory as an Add that holds the lock is about to leave it.
AfterAppend(u) ==
    LET f == frame[u]
        old == IF f.addNode \in DOMAIN numaMap THEN numaMap[f.addNode] ELSE <<>>
    IN MapPut(numaMap, f.addNode, old \o f.addFI)

\* The callers that hold the exclusive lock and write, or may write, the
\* inventory: an Add before its append, a holder of LockedMap's map.
Writers(t) ==
    {u \in Threads \ {t} :
        \/ pc[u] = "append" /\ ~numaMapNil
        \/ pc[u] = "hold" /\ frame[u].op = "LockedMap" /\ frame[u].locked}

\* fabric.go:379-392, 408-424  Find's read of the inventory, without the
\* lock, and what Find and FindDevice make of it.  A read that runs while
\* an Add is writing is a data race: it sees the map before or after the
\* append, or the runtime stops the program with a fatal error.
FindRead(t) ==
    /\ pc[t] = "find"
    /\ LET f == frame[t]
           views == {numaMap} \cup {AfterAppend(u) : u \in {u \in Writers(t) : pc[u] = "append"}}
       IN \/ \E view \in views, order \in RangeOrders(DOMAIN numaMap) :
                LET found == FindIn(view, order, f.name)
                    res == IF f.op = "Find"
                           THEN FindResult(found, f.name)
                           ELSE FindDeviceResult(FindResult(found, f.name), f.params)
                IN frame' = [frame EXCEPT
                                ![t].fiList = [k \in 1..Len(res.fiList) |-> res.fiList[k].val],
                                ![t].refs = [k \in 1..Len(res.fiList) |-> res.fiList[k].ref],
                                ![t].err = res.err,
                                ![t].raced = Writers(t) # {}]
          \/ /\ \E u \in Writers(t) : pc[u] = "append"
             /\ frame' = [frame EXCEPT
                             ![t].err = ErrNew("fatal error: concurrent map read and map write"),
                             ![t].raced = TRUE]
    /\ pc' = [pc EXCEPT ![t] = "ret"]
    /\ UNCHANGED <<engine, mutex, netInterfaces, watch, streak, nAdds, agent,
                   lastFallback, mixed>>

(***************************************************************************)
(* The return of a call: the deferred Unlock runs (fabric.go:243, 140) and *)
(* the caller has its result.  A GetDevice call that went through the lock *)
(* is added to the streak: the run of consecutive calls with one request.  *)
(***************************************************************************)
\* Where the call found its device: <<node, index in the node's list>>.
Pick(f) == IF f.fi = <<>> THEN <<>> ELSE <<f.numaNode, f.deviceIndex>>

\* The streak is the run of consecutive GetDevice calls, in the order they
\* held the lock, that all made the watched request, with the engine as the
\* first of them found it; a call with another request ends the run.
StreakAfter(f) ==
    IF f.params # watch
    THEN NoStreak
    ELSE IF streak.picks # <<>> /\ Len(streak.picks) < MaxStreak
    THEN [streak EXCEPT !.picks = Append(streak.picks, Pick(f))]
    ELSE [start |-> f.pre, picks |-> <<Pick(f)>>]

\* The picks on record once f's call is added: the latest MaxMixed devices
\* that GetDevice calls returned, each with whether the call made the
\* watched request.
MixedAfter(f) ==
    IF ~mixed.on \/ f.fi = <<>>
    THEN mixed
    ELSE LET all == Append(mixed.calls, [watched |-> f.params = watch, pick |-> Pick(f)])
         IN [mixed EXCEPT !.calls =
                IF Len(all) > MaxMixed THEN Tail(all) ELSE all]

Return(t) ==
    /\ pc[t] = "ret"
    /\ IF frame[t].locked THEN MutexUnlock(t) ELSE UNCHANGED mutex
    /\ streak' = IF frame[t].op = "GetDevice" /\ frame[t].locked
                 THEN StreakAfter(frame[t])
                 ELSE streak
    /\ mixed' = IF frame[t].op = "GetDevice" /\ frame[t].locked
                THEN MixedAfter(frame[t])
                ELSE mixed
    /\ pc' = [pc EXCEPT ![t] = "idle"]
    /\ frame' = [frame EXCEPT ![t] = IdleFrame]
    /\ UNCHANGED <<engine, netInterfaces, watch, nAdds, agent, lastFallback>>

\* The call returns to a caller that keeps what it returned: the deferred
\* Unlock runs as in Return, and the caller holds the returned entities.
ReturnKeeping(t) ==
    /\ pc[t] = "ret"
    /\ frame[t].op \in {"GetDevice", "Find", "FindDevice"}
    /\ IF frame[t].locked THEN MutexUnlock(t) ELSE UNCHANGED mutex
    /\ streak' = IF frame[t].op = "GetDevice" /\ frame[t].locked
                 THEN StreakAfter(frame[t])
                 ELSE streak
    /\ mixed' = IF frame[t].op = "GetDevice" /\ frame[t].locked
                THEN MixedAfter(frame[t])
                ELSE mixed
    /\ pc' = [pc EXCEPT ![t] = "hold"]
    /\ frame' = [frame EXCEPT ![t].locked = FALSE]
    /\ UNCHANGED <<engine, netInterfaces, watch, nAdds, agent, lastFallback>>

\* What a caller may write into the fields of an entity it was handed.
Overwritten(fi, field) ==
    CASE field = "Name" -> [fi EXCEPT !.Name = "zz"]
      [] field = "Domain" -> [fi EXCEPT !.Domain = "changed"]
      [] OTHER -> [fi EXCEPT !.NetDevClass = NetDevClassZero]

\* The caller writes a field of the k-th entity it holds.  The write lands
\* in the object the pointer points to: the caller's own copy, or, were the
\* pointer one into the inventory, the inventory's entry.
CallerWrites(t, k, field) ==
    /\ pc[t] = "hold"
    /\ LET f == frame[t]
           held == IF f.op = "GetDevice" THEN f.fi ELSE f.fiList
       IN /\ k \in 1..Len(held)
          /\ held[k] # Overwritten(held[k], field)
          /\ frame' = IF f.op = "GetDevice"
                       THEN [frame EXCEPT ![t].fi[k] = Overwritten(held[k], field)]
                       ELSE [frame EXCEPT ![t].fiList[k] = Overwritten(held[k], field)]
          /\ numaMap' = IF f.refs[k] = <<>>
                         THEN numaMap
                         ELSE LET node == f.refs[k][1]
                                  idx == f.refs[k][2] + 1
                              IN [numaMap EXCEPT ![node][idx] =
                                     Overwritten(numaMap[node][idx], field)]
    /\ UNCHANGED <<numaMapNil, currentNumaDevIdx, currentNUMANode, ifaceFilter, mutex,
                   netInterfaces, pc, watch, streak, nAdds, agent, lastFallback, mixed>>

\* The caller is done with what it holds.
Drop(t) ==
    /\ pc[t] = "hold"
    /\ frame[t].op \in {"GetDevice", "Find", "FindDevice"}
    /\ pc' = [pc EXCEPT ![t] = "idle"]
    /\ frame' = [frame EXCEPT ![t] = IdleFrame]
    /\ UNCHANGED <<engine, mutex, netInterfaces, watch, streak, nAdds, agent,
                   lastFallback, mixed>>

(***************************************************************************)
(* Construction.                                                           *)
(***************************************************************************)
\* fabric.go:447-453  newNUMAFabric: an empty map, no cursor, no filter
EmptyMap == [x \in {} |-> <<>>]

\* fabric.go:470 / 514  the builders' append to a node's list
MapAppend(map, node, fi) ==
    MapPut(map, node, (IF node \in DOMAIN map THEN map[node] ELSE <<>>) \o <<fi>>)

\* fabric.go:455-481  NUMAFabricFromScan: scan is the sequence, in the order
\* of scan.Names(), of hardware interfaces [Name, NUMANode, DeviceClass,
\* Providers, NetInterfaces]; each OS interface name becomes one device.
RECURSIVE AddNetIFs(_, _, _)
AddNetIFs(map, hwfi, netIFs) ==
    IF netIFs = <<>>
    THEN map
    ELSE AddNetIFs(MapAppend(map, hwfi.NUMANode,
                             ScanFI(Head(netIFs), hwfi.Name, hwfi.DeviceClass,
                                    hwfi.Providers)),
                   hwfi, Tail(netIFs))

RECURSIVE NUMAFabricFromScan(_)
NUMAFabricFromScan(scan) ==
    IF scan = <<>>
    THEN EmptyMap
    ELSE LET last == scan[Len(scan)]
         IN AddNetIFs(NUMAFabricFromScan(SubSeq(scan, 1, Len(scan) - 1)),
                      last, last.NetInterfaces)

\* fabric.go:499-519  NUMAFabricFromConfig: cfg is a sequence of
\* [NUMANode, Interfaces], Interfaces a sequence of [Interface, Domain].
RECURSIVE AddConfigIFs(_, _, _)
AddConfigIFs(map, node, ifaces) ==
    IF ifaces = <<>>
    THEN map
    ELSE AddConfigIFs(MapAppend(map, node,
                                ConfigFI(Head(ifaces).Interface, Head(ifaces).Domain)),
                      node, Tail(ifaces))

RECURSIVE NUMAFabricFromConfig(_)
NUMAFabricFromConfig(cfg) ==
    IF cfg = <<>>
    THEN EmptyMap
    ELSE LET last == cfg[Len(cfg)]
         IN AddConfigIFs(NUMAFabricFromConfig(SubSeq(cfg, 1, Len(cfg) - 1)),
                         last.NUMANode, last.Interfaces)

(***************************************************************************)
(* The agent's configuration (fabric.go:564-662) and its start-up.         *)
(***************************************************************************)
\* fabric.go:564-584  the fields of Config that Validate reads.  SystemName
\* is "" or a name; TelemetryRetain is a duration, TelemetryPort a port.
Config(name, port, enabled, retain, exclude, include) ==
    [isNil |-> FALSE, SystemName |-> name, TelemetryPort |-> port,
     TelemetryEnabled |-> enabled, TelemetryRetain |-> retain,
     ExcludeFabricIfaces |-> exclude, IncludeFabricIfaces |-> include]

\* fabric.go:651-662  DefaultConfig: the default system name, no telemetry,
\* no interface sets.
DefaultConfig == Config("daos_server", 0, FALSE, 0, {}, {})

NilConfig == [DefaultConfig EXCEPT !.isNil = TRUE]

\* daos.SystemNameIsValid: a name is valid when it is not empty and holds
\* no character outside letters, digits, '_' and '-'.
SystemNameIsValid(name) == name \notin {"", "bad name!"}

\* Validate without the test of the two interface sets.
ValidateNoSetsCheck(c) ==
    IF c.isNil
    THEN ErrNew("config is nil")
    ELSE IF ~SystemNameIsValid(c.SystemName)
    THEN <<"invalid system name", c.SystemName>>
    ELSE IF c.TelemetryRetain > 0 /\ c.TelemetryPort = 0
    THEN ErrNew("telemetry_retain requires telemetry_port")
    ELSE IF c.TelemetryEnabled /\ c.TelemetryPort = 0
    THEN ErrNew("telemetry_enabled requires telemetry_port")
    ELSE NoErr

\* fabric.go:587-609  Config.Validate
Validate(c) ==
    IF c.isNil
    THEN ErrNew("config is nil")
    ELSE IF ~SystemNameIsValid(c.SystemName)
    THEN <<"invalid system name", c.SystemName>>
    ELSE IF c.TelemetryRetain > 0 /\ c.TelemetryPort = 0
    THEN ErrNew("telemetry_retain requires telemetry_port")
    ELSE IF c.TelemetryEnabled /\ c.TelemetryPort = 0
    THEN ErrNew("telemetry_enabled requires telemetry_port")
    ELSE IF Cardinality(c.ExcludeFabricIfaces) > 0 /\ Cardinality(c.IncludeFabricIfaces) > 0
    THEN ErrNew("cannot specify both exclude_fabric_ifaces and include_fabric_ifaces")
    ELSE NoErr

\* The phases of the agent's start-up: the configuration file is about to be
\* loaded, loading failed, the configuration is loaded, the engine serves.
Starting(file) == [phase |-> "start", cfg |-> file, err |-> NoErr]
Failed(cfg, err) == [phase |-> "failed", cfg |-> cfg, err |-> err]
Loaded(cfg) == [phase |-> "loaded", cfg |-> cfg, err |-> NoErr]
Serving(cfg) == [phase |-> "serving", cfg |-> cfg, err |-> NoErr]

\* fabric.go:630-648  LoadConfig: the file's content, parsed over
\* DefaultConfig, is validated; an error of Validate is returned wrapped.
LoadConfig ==
    /\ agent.phase = "start"
    /\ LET cfg == agent.cfg
           err == Validate(cfg)
       IN agent' = IF err # NoErr
                   THEN Failed(cfg, <<"agent config validation failed">> \o err)
                   ELSE Loaded(cfg)
    /\ UNCHANGED <<engine, mutex, netInterfaces, pc, frame, watch, streak, nAdds,
                   lastFallback, mixed>>

\* The filter the agent makes of its configuration: the exclude set when
\* there is one, else the include set when there is one, else none.
ConfigFilter(cfg) ==
    IF Cardinality(cfg.ExcludeFabricIfaces) > 0
    THEN newDeviceFilter(cfg.ExcludeFabricIfaces, filterModeExclude)
    ELSE IF Cardinality(cfg.IncludeFabricIfaces) > 0
    THEN newDeviceFilter(cfg.IncludeFabricIfaces, filterModeInclude)
    ELSE NilFilter

\* fabric.go:148-154  WithDeviceFilter: a nil filter leaves the engine's
\* filter as it is.
WithDeviceFilter(old, filter) == IF filter.isNil THEN old ELSE filter

\* The agent attaches the filter of its loaded configuration to the engine
\* the builder made, and the engine starts to serve.
AttachFilter ==
    /\ agent.phase = "loaded"
    /\ ifaceFilter' = WithDeviceFilter(ifaceFilter, ConfigFilter(agent.cfg))
    /\ agent' = Serving(agent.cfg)
    /\ UNCHANGED <<numaMap, numaMapNil, currentNumaDevIdx, currentNUMANode, mutex,
                   netInterfaces, pc, frame, watch, streak, nAdds, lastFallback, mixed>>

\* The engine as a builder and WithDeviceFilter (fabric.go:148-154) leave it,
\* with the callers idle; envs are the <<filter, OS interface states>> pairs.
InitWith(maps, envs, watched) ==
    /\ numaMap \in maps
    /\ currentNumaDevIdx = EmptyMap
    /\ currentNUMANode = 0
    /\ \E e \in envs : ifaceFilter = e[1] /\ netInterfaces = e[2]
    /\ mutex = [writer |-> NoThread, readers |-> {}]
    /\ pc = [t \in Threads |-> "idle"]
    /\ frame = [t \in Threads |-> IdleFrame]
    /\ watch \in watched
    /\ streak = NoStreak
    /\ nAdds = 0
    /\ numaMapNil = FALSE
    /\ agent = Serving(DefaultConfig)
    /\ lastFallback = NoNode
    /\ mixed = MixedOff

(***************************************************************************)
(* Inputs: the hardware the scan found, the static configurations, the     *)
(* filters, the OS's interface states and the requests.                    *)
(***************************************************************************)
\* Interface names in the order of scan.Names(), with the device class and
\* the providers of the hardware interface behind each.
ScanNames == <<"A", "B", "C", "D", "E">>
ScanNameSet == {ScanNames[k] : k \in 1..Len(ScanNames)}
ClassOf(name) == IF name \in {"D", "E"} THEN Infiniband ELSE Ether
ProvidersOf(name) == IF name \in {"B", "E"} THEN {"tcp", "verbs"} ELSE {"tcp"}
ManualNames == {"M", "N"}
Names == ScanNameSet \cup ManualNames

HWIface(name, node) ==
    [Name |-> "hw" \o name, NUMANode |-> node, DeviceClass |-> ClassOf(name),
     Providers |-> ProvidersOf(name), NetInterfaces |-> <<name>>]

\* The scan that found the interfaces of DOMAIN place on the nodes place gives.
RECURSIVE ScanOf(_, _)
ScanOf(place, k) ==
    IF k > Len(ScanNames)
    THEN <<>>
    ELSE (IF ScanNames[k] \in DOMAIN place
          THEN <<HWIface(ScanNames[k], place[ScanNames[k]])>>
          ELSE <<>>) \o ScanOf(place, k + 1)

ScansOver(nameSets) ==
    {ScanOf(place, 1) : place \in UNION {[S -> Nodes] : S \in nameSets}}

ConfigIface(name) == [Interface |-> name, Domain |-> ""]

\* The OS states of an interface.
LinkAddr == Addr(FALSE, FALSE, FALSE)
IPAddr == Addr(TRUE, FALSE, FALSE)
UnspecifiedAddr == Addr(TRUE, FALSE, TRUE)
NilIPAddr == Addr(TRUE, TRUE, FALSE)
IfUp == [lookupErr |-> NoErr, addrsErr |-> NoErr, addrs |-> <<LinkAddr, IPAddr>>]
IfMissing == [lookupErr |-> ErrNew("no such network interface"), addrsErr |-> NoErr, addrs |-> <<>>]
IfAddrsErr == [lookupErr |-> NoErr, addrsErr |-> ErrNew("route ip+net: invalid"), addrs |-> <<>>]
IfNoAddrs == [lookupErr |-> NoErr, addrsErr |-> NoErr, addrs |-> <<>>]
IfUnspecified == [lookupErr |-> NoErr, addrsErr |-> NoErr, addrs |-> <<LinkAddr, UnspecifiedAddr>>]
IfNilIP == [lookupErr |-> NoErr, addrsErr |-> NoErr, addrs |-> <<NilIPAddr>>]

\* How an interface that is not live fails.
DownState(name) ==
    CASE name \in {"A", "M"} -> IfMissing
      [] name = "B" -> IfUnspecified
      [] name = "C" -> IfNoAddrs
      [] name = "D" -> IfAddrsErr
      [] OTHER -> IfNilIP

NetWith(down) == [name \in Names |-> IF name \in down THEN DownState(name) ELSE IfUp]

Requests(nodes, classes, providers) ==
    {FabricIfaceParams("", "", p, c, n) : n \in nodes, c \in classes, p \in providers}

(***************************************************************************)
(* The steps of the callers, over given callers, requests and Add inputs.  *)
(***************************************************************************)
\* GetDevice calls that fail their argument checks.
BadCalls(requests) ==
    {<<TRUE, p>> : p \in requests} \cup {<<FALSE, NilParams>>}
        \cup {<<FALSE, [p EXCEPT !.Provider = ""]>> : p \in requests}

GetDeviceSteps(callers, requests) ==
    \/ \E t \in callers, p \in requests : GetDevice(t, FALSE, p)
    \/ \E t \in callers, c \in BadCalls(requests) : GetDevice(t, c[1], c[2])
    \/ \E t \in callers : GetDeviceLock(t)
    \/ \E t \in callers : GetDeviceScan(t)
    \/ \E t \in callers : GetDeviceAdvance(t)
    \/ \E t \in callers : GetDeviceAnyNUMA(t)
    \/ \E t \in callers : Return(t)

AddSteps(callers, adds) ==
    \/ \E t \in callers, a \in adds, recvNil \in BOOLEAN : Add(t, recvNil, a[1], a[2])
    \/ \E t \in callers : AddLock(t)
    \/ \E t \in callers : AddAppend(t)

\* Find and FindDevice calls, the nil engine and nil parameters included.
FindSteps(callers, names, requests) ==
    \/ \E t \in callers, recvNil \in BOOLEAN, name \in names : Find(t, recvNil, name)
    \/ \E t \in callers, recvNil \in BOOLEAN, p \in requests \cup {NilParams} :
           FindDevice(t, recvNil, p)
    \/ \E t \in callers : FindRead(t)

\* The read accessors and the scoped map accessors.
LockSteps(callers) ==
    \/ \E t \in callers, recvNil \in BOOLEAN, n \in Nodes : NumDevices(t, recvNil, n)
    \/ \E t \in callers, recvNil \in BOOLEAN : NumNUMANodes(t, recvNil)
    \/ \E t \in callers : CountRLock(t)
    \/ \E t \in callers : CountRead(t)
    \/ \E t \in callers : ReturnShared(t)
    \/ \E t \in callers, recvNil \in BOOLEAN, shared \in BOOLEAN : LockedMap(t, recvNil, shared)
    \/ \E t \in callers : LockedMapLock(t)
    \/ \E t \in callers : LockedMapCheck(t)
    \/ \E t \in callers : Release(t)

\* Callers that keep the entities a call returned and write their fields.
KeepSteps(callers) ==
    \/ \E t \in callers : ReturnKeeping(t)
    \/ \E t \in callers, k \in 1..2, field \in {"Name", "Domain", "NetDevClass"} :
           CallerWrites(t, k, field)
    \/ \E t \in callers : Drop(t)

(***************************************************************************)
(* Spec: one caller making every request and adding a device, over the     *)
(* inventories a scan of up to MaxScanned interfaces or a static           *)
(* configuration builds.                                                   *)
(***************************************************************************)
MaxScanned == 2

SpecPool == {"A", "B", "D", "E"}
SpecScans == ScansOver({S \in SUBSET SpecPool : Cardinality(S) <= MaxScanned})

SpecConfigs ==
    {<<[NUMANode |-> n, Interfaces |-> <<ConfigIface("M")>>]>> : n \in Nodes}
        \cup {<<[NUMANode |-> n, Interfaces |-> <<ConfigIface("M"), ConfigIface("N")>>]>> : n \in Nodes}

SpecMaps == {NUMAFabricFromScan(s) : s \in SpecScans}
                \cup {NUMAFabricFromConfig(c) : c \in SpecConfigs}

SpecEnvs == {<<NilFilter, NetWith({})>>,
             <<newDeviceFilter({"B", "D"}, filterModeExclude), NetWith({})>>,
             <<newDeviceFilter({"A", "E", "M"}, filterModeInclude), NetWith({})>>,
             <<NilFilter, NetWith({"A", "D", "M"})>>,
             <<NilFilter, NetWith(Names)>>}

SpecCallers == {"t1"}
SpecRequests == Requests(Nodes, ScanClasses, Providers)
SpecAdds == {<<1, ScanFI("C", "hwC", Ether, {"tcp"})>>}

Init == InitWith(SpecMaps, SpecEnvs, {NilParams})
Next == GetDeviceSteps(SpecCallers, SpecRequests) \/ AddSteps(SpecCallers, SpecAdds)
Spec == Init /\ [][Next]_vars

(***************************************************************************)
(* SpecRR: one caller repeating requests, one of them watched, over the    *)
(* inventories a scan of up to three of the interfaces A, B, C, D builds.  *)
(***************************************************************************)
RRPool == {"A", "B", "C", "D"}
RRScans == ScansOver({S \in SUBSET RRPool : Cardinality(S) <= Cardinality(RRPool) - 1})
RRMaps == {NUMAFabricFromScan(s) : s \in RRScans}

RREnvs == {<<NilFilter, NetWith({})>>,
           <<newDeviceFilter({"B"}, filterModeExclude), NetWith({})>>,
           <<NilFilter, NetWith({"A"})>>}

RRRequests == {FabricIfaceParams("", "", "tcp", Ether, 0),
               FabricIfaceParams("", "", "verbs", Ether, 0),
               FabricIfaceParams("", "", "tcp", Infiniband, 1)}

InitRR == InitWith(RRMaps, RREnvs, RRRequests)
NextRR == GetDeviceSteps(SpecCallers, RRRequests)
SpecRR == InitRR /\ [][NextRR]_vars

(***************************************************************************)
(* SpecConc: three concurrent callers of GetDevice(0, Ether, "tcp"), and   *)
(* of GetDevice with bad arguments, over the inventories that hold up to   *)
(* three of A, B, C, D on node 0.                                          *)
(***************************************************************************)
ConcMaps ==
    {NUMAFabricFromScan(ScanOf([x \in S |-> 0], 1)) :
        S \in {S \in SUBSET RRPool : Cardinality(S) \in 1..(Cardinality(RRPool) - 1)}}

ConcRequests == {FabricIfaceParams("", "", "tcp", Ether, 0)}

InitConc == InitWith(ConcMaps, RREnvs, ConcRequests)
NextConc == GetDeviceSteps(Threads, ConcRequests)
SpecConc == InitConc /\ [][NextConc]_vars

(***************************************************************************)
(* SpecMix: two concurrent callers making the watched request              *)
(* GetDevice(0, Ether, "tcp") and two other requests, with the devices     *)
(* their calls return on record, over the inventories a scan of some of    *)
(* A, B, D on nodes 0 and 1 builds.                                        *)
(***************************************************************************)
MixCallers == {"t1", "t2"}
MixNodes == {0, 1}
MixPool == {"A", "B", "D"}
MixScans ==
    {ScanOf(place, 1) : place \in UNION {[S -> MixNodes] : S \in SUBSET MixPool}}
MixMaps == {NUMAFabricFromScan(s) : s \in MixScans}

MixWatched == FabricIfaceParams("", "", "tcp", Ether, 0)
MixRequests == {MixWatched,
                FabricIfaceParams("", "", "verbs", Ether, 0),
                FabricIfaceParams("", "", "tcp", Infiniband, 1)}

InitMix ==
    /\ numaMap \in MixMaps
    /\ numaMapNil = FALSE
    /\ currentNumaDevIdx = EmptyMap
    /\ currentNUMANode = 0
    /\ ifaceFilter = NilFilter
    /\ netInterfaces = NetWith({})
    /\ mutex = [writer |-> NoThread, readers |-> {}]
    /\ pc = [t \in Threads |-> "idle"]
    /\ frame = [t \in Threads |-> IdleFrame]
    /\ watch = MixWatched
    /\ streak = NoStreak
    /\ nAdds = 0
    /\ agent = Serving(DefaultConfig)
    /\ lastFallback = NoNode
    /\ mixed = MixedOn

NextMix == GetDeviceSteps(MixCallers, MixRequests)
SpecMix == InitMix /\ [][NextMix]_vars

(***************************************************************************)
(* SpecFind: two callers of Find, FindDevice and GetDevice, one of which   *)
(* keeps the entities it is handed and writes their fields.  The scan      *)
(* found the OS interface ib0 under the hardware interfaces ib0 (verbs)    *)
(* and ib0d1 (tcp), and eth0; an Add may have put ib1, which has no        *)
(* domain, on node 1; or the static configuration names ib0 twice.         *)
(***************************************************************************)
FindNodes == {0, 1}
FindHW(node) ==
    [eth0 |-> [Name |-> "eth0", NUMANode |-> 1, DeviceClass |-> Ether,
               Providers |-> {"tcp"}, NetInterfaces |-> <<"eth0">>],
     ib0 |-> [Name |-> "ib0", NUMANode |-> node["ib0"], DeviceClass |-> Infiniband,
              Providers |-> {"verbs"}, NetInterfaces |-> <<"ib0">>],
     ib0d1 |-> [Name |-> "ib0d1", NUMANode |-> node["ib0d1"], DeviceClass |-> Infiniband,
                Providers |-> {"tcp"}, NetInterfaces |-> <<"ib0">>]]

FindScans ==
    {<<FindHW(node).eth0, FindHW(node).ib0, FindHW(node).ib0d1>> :
        node \in [{"ib0", "ib0d1"} -> FindNodes]}

NoDomainFI == FabricInterface("ib1", "", Ether, HW({"tcp"}))

FindConfigs ==
    {<<[NUMANode |-> 0,
        Interfaces |-> <<[Interface |-> "ib0", Domain |-> ""],
                         [Interface |-> "ib0", Domain |-> "ib0d1"]>>]>>}

FindMaps ==
    {NUMAFabricFromScan(scan) : scan \in FindScans}
        \cup {MapAppend(NUMAFabricFromScan(scan), 1, NoDomainFI) : scan \in FindScans}
        \cup {NUMAFabricFromConfig(cfg) : cfg \in FindConfigs}

FindNet == [name \in {"eth0", "ib0", "ib1", "zz"} |-> IfUp]

FindCallers == {"t1", "t2"}
FindKeepers == {"t1"}
FindNames == {"ib0", "eth0", "ib1", "nope"}
FindRequests ==
    {FabricIfaceParams(q[1], q[2], q[3], NetDevClassZero, 0) :
        q \in {<<"ib0", "", "">>, <<"ib0", "", "tcp">>, <<"ib0", "ib0", "verbs">>,
               <<"ib0", "ib0d1", "verbs">>, <<"ib0", "nope", "">>, <<"ib0", "nope", "tcp">>,
               <<"ib1", "ib1", "tcp">>, <<"ib1", "", "verbs">>, <<"eth0", "", "">>}}
FindGetRequests == {FabricIfaceParams("", "", "tcp", Infiniband, 0)}

InitFind ==
    /\ numaMap \in FindMaps
    /\ numaMapNil = FALSE
    /\ currentNumaDevIdx = EmptyMap
    /\ currentNUMANode = 0
    /\ ifaceFilter = NilFilter
    /\ netInterfaces = FindNet
    /\ mutex = [writer |-> NoThread, readers |-> {}]
    /\ pc = [t \in Threads |-> "idle"]
    /\ frame = [t \in Threads |-> IdleFrame]
    /\ watch = NilParams
    /\ streak = NoStreak
    /\ nAdds = 0
    /\ agent = Serving(DefaultConfig)
    /\ lastFallback = NoNode
    /\ mixed = MixedOff

NextFind ==
    \/ FindSteps(FindCallers, FindNames, FindRequests)
    \/ GetDeviceSteps(FindCallers, FindGetRequests)
    \/ KeepSteps(FindKeepers)
SpecFind == InitFind /\ [][NextFind]_vars

(***************************************************************************)
(* SpecLock: three concurrent callers of every operation of the engine,    *)
(* over an engine holding device A on node 0 and an engine whose numaMap   *)
(* was never made (the zero NUMAFabric the accessors test for).            *)
(***************************************************************************)
LockRequests == {FabricIfaceParams("", "", "tcp", Ether, 0)}

InitLock ==
    /\ numaMapNil \in BOOLEAN
    /\ numaMap = IF numaMapNil
                 THEN EmptyMap
                 ELSE NUMAFabricFromScan(ScanOf([x \in {"A"} |-> 0], 1))
    /\ currentNumaDevIdx = EmptyMap
    /\ currentNUMANode = 0
    /\ ifaceFilter = NilFilter
    /\ netInterfaces = NetWith({})
    /\ mutex = [writer |-> NoThread, readers |-> {}]
    /\ pc = [t \in Threads |-> "idle"]
    /\ frame = [t \in Threads |-> IdleFrame]
    /\ watch = NilParams
    /\ streak = NoStreak
    /\ nAdds = 0
    /\ agent = Serving(DefaultConfig)
    /\ lastFallback = NoNode
    /\ mixed = MixedOff

NextLock ==
    \/ GetDeviceSteps(Threads, LockRequests)
    \/ AddSteps(Threads, SpecAdds)
    \/ FindSteps(Threads, {"A"}, LockRequests)
    \/ LockSteps(Threads)
SpecLock == InitLock /\ [][NextLock]_vars

(***************************************************************************)
(* SpecBoot: the agent starts from a configuration file, LoadConfig        *)
(* validates it, the filter of a loaded configuration is attached to the   *)
(* engine built over devices A and B of node 0, and the engine then serves *)
(* GetDevice(0, Ether, "tcp").                                             *)
(***************************************************************************)
BootConfigs ==
    {Config(name, port, enabled, retain, exclude, include) :
        name \in {"daos_server", "bad name!"}, port \in {0, 9191},
        enabled \in BOOLEAN, retain \in {0, 1},
        exclude \in {{}, {"B"}}, include \in {{}, {"A"}}}

InitBoot ==
    /\ agent \in {Starting(c) : c \in BootConfigs}
    /\ numaMap = NUMAFabricFromScan(ScanOf([x \in {"A", "B"} |-> 0], 1))
    /\ numaMapNil = FALSE
    /\ currentNumaDevIdx = EmptyMap
    /\ currentNUMANode = 0
    /\ ifaceFilter = NilFilter
    /\ netInterfaces = NetWith({})
    /\ mutex = [writer |-> NoThread, readers |-> {}]
    /\ pc = [t \in Threads |-> "idle"]
    /\ frame = [t \in Threads |-> IdleFrame]
    /\ watch = NilParams
    /\ streak = NoStreak
    /\ nAdds = 0
    /\ lastFallback = NoNode
    /\ mixed = MixedOff

NextBoot ==
    \/ LoadConfig
    \/ AttachFilter
    \/ agent.phase = "serving" /\ GetDeviceSteps(SpecCallers, LockRequests)
SpecBoot == InitBoot /\ [][NextBoot]_vars

(***************************************************************************)
(* SpecBuilt: one caller of Add, GetDevice and the accessors over what the *)
(* builders make of their edge inputs (an empty scan, a hardware interface *)
(* with no OS interface or with two, a configured node with no devices, a  *)
(* node configured twice), under every shape of filter: absent, without a  *)
(* device set, with an empty set and with a set, in both modes.            *)
(***************************************************************************)
BuiltMaps ==
    LET noIF == [HWIface("E", 2) EXCEPT !.NetInterfaces = <<>>]
        twoIFs == [HWIface("B", 1) EXCEPT !.NetInterfaces = <<"B", "C">>]
        node(n, names) ==
            [NUMANode |-> n,
             Interfaces |-> [k \in 1..Len(names) |-> ConfigIface(names[k])]]
    IN {NUMAFabricFromScan(scan) :
            scan \in {<<>>, <<noIF>>, <<HWIface("A", 0)>>, <<HWIface("A", 0), noIF>>,
                      <<HWIface("A", 0), HWIface("B", 0)>>, <<HWIface("A", 0), twoIFs>>}}
           \cup {NUMAFabricFromConfig(cfg) :
                    cfg \in {<<>>, <<node(0, <<"M">>), node(1, <<>>)>>,
                             <<node(0, <<"M">>), node(0, <<"N">>)>>,
                             <<node(1, <<"M", "N">>)>>}}

BuiltFilters ==
    {NilFilter}
        \cup {[newDeviceFilter({}, mode) EXCEPT !.setNil = TRUE] :
                 mode \in {filterModeExclude, filterModeInclude}}
        \cup {newDeviceFilter(set, mode) :
                 set \in {{}, {"A", "M"}, {"B"}},
                 mode \in {filterModeExclude, filterModeInclude}}

InitBuilt ==
    InitWith(BuiltMaps, {<<filter, NetWith({})>> : filter \in BuiltFilters}, {NilParams})
NextBuilt ==
    \/ GetDeviceSteps(SpecCallers, LockRequests)
    \/ AddSteps(SpecCallers, SpecAdds)
    \/ LockSteps(SpecCallers)
SpecBuilt == InitBuilt /\ [][NextBuilt]_vars

(***************************************************************************)
(* What the claims speak of, stated over the inventory, the filter and the *)
(* OS's interface states.                                                  *)
(***************************************************************************)
\* The attached filter ignores the name: it is in the set of an exclude
\* filter, or missing from the set of an include filter.
IgnoredByFilter(name) ==
    /\ ~ifaceFilter.isNil
    /\ ~ifaceFilter.setNil
    /\ IF ifaceFilter.mode = filterModeExclude
       THEN name \in ifaceFilter.deviceSet
       ELSE name \notin ifaceFilter.deviceSet

\* The device is Manual, or of the requested class with the requested provider.
Compatible(d, p) ==
    \/ d.NetDevClass = FabricDevClassManual
    \/ /\ d.NetDevClass = p.DevClass
       /\ ~d.hw.isNil
       /\ p.Provider \in d.hw.Providers

\* The interface has at least one assigned, non-unspecified IP address.
HasLiveAddress(name) ==
    LET nif == netInterfaces[name]
    IN /\ nif.lookupErr = NoErr
       /\ nif.addrsErr = NoErr
       /\ \E k \in 1..Len(nif.addrs) :
              nif.addrs[k].isIPNet /\ ~nif.addrs[k].ipNil /\ ~nif.addrs[k].unspecified

\* The indices (from 1) of node n's devices that match request p but for
\* liveness, and of those that are eligible: matching and live.
MatchingOn(n, p) ==
    IF n \in DOMAIN numaMap
    THEN {k \in 1..Len(numaMap[n]) :
             ~IgnoredByFilter(numaMap[n][k].Name) /\ Compatible(numaMap[n][k], p)}
    ELSE {}

EligibleOn(n, p) == {k \in MatchingOn(n, p) : HasLiveAddress(numaMap[n][k].Name)}

\* Caller t is at the return of a GetDevice call that passed the argument
\* checks; it still holds the lock, so the engine is as the call leaves it.
Returning(t) == pc[t] = "ret" /\ frame[t].op = "GetDevice" /\ frame[t].locked

\* The call of t returns a device.
Succeeded(t) == Returning(t) /\ frame[t].err = NoErr

\* The validations that failed during the call of t.
FailedValidations(t) == frame[t].probed \ frame[t].validated

(***************************************************************************)
(* C1: every device a successful GetDevice returns, found on the requested *)
(* node or by fallback, is an entry of the inventory whose name the filter *)
(* does not ignore, that is Manual or of the requested class with the      *)
(* requested provider, and that the liveness validation accepted during    *)
(* the call.                                                               *)
(***************************************************************************)
C1_ReturnedDeviceEligible ==
    \A t \in Threads :
        Succeeded(t) =>
            /\ Len(frame[t].fi) = 1
            /\ LET d == frame[t].fi[1]
                   at == Pick(frame[t])
               IN /\ at[1] \in DOMAIN numaMap
                  /\ at[2] + 1 \in 1..Len(numaMap[at[1]])
                  /\ numaMap[at[1]][at[2] + 1] = d
                  /\ ~IgnoredByFilter(d.Name)
                  /\ Compatible(d, frame[t].params)
                  /\ d.Name \in frame[t].validated
                  /\ HasLiveAddress(d.Name)

\* A scanned device is returned by the cross-node fallback while a filter is attached.
C1_Witness ==
    \E t \in Threads :
        /\ Succeeded(t)
        /\ frame[t].inAny
        /\ frame[t].numaNode # frame[t].params.NUMANode
        /\ frame[t].fi[1].NetDevClass # FabricDevClassManual
        /\ ~ifaceFilter.isNil

(***************************************************************************)
(* C4: when the requested node holds a device that is unfiltered,          *)
(* compatible and live, GetDevice returns a device of the requested node's *)
(* list, without running the fallback and with the cross-node cursor as it *)
(* was.                                                                    *)
(***************************************************************************)
C4_LocalFirst ==
    \A t \in Threads :
        (Returning(t) /\ EligibleOn(frame[t].params.NUMANode, frame[t].params) # {}) =>
            /\ frame[t].err = NoErr
            /\ ~frame[t].inAny
            /\ Pick(frame[t])[1] = frame[t].params.NUMANode
            /\ Pick(frame[t])[2] + 1 \in EligibleOn(frame[t].params.NUMANode, frame[t].params)
            /\ frame[t].fi = <<numaMap[frame[t].params.NUMANode][Pick(frame[t])[2] + 1]>>
            /\ currentNUMANode = frame[t].pre.currentNUMANode

\* The local search passed over a device before it found one, another node
\* holds an eligible device too, and the cross-node cursor is not at its start.
C4_Witness ==
    \E t \in Threads :
        /\ Returning(t)
        /\ EligibleOn(frame[t].params.NUMANode, frame[t].params) # {}
        /\ frame[t].examined >= 2
        /\ currentNUMANode # 0
        /\ \E m \in DOMAIN numaMap \ {frame[t].params.NUMANode} :
               EligibleOn(m, frame[t].params) # {}

(***************************************************************************)
(* C5: a GetDevice call with a provider fails, with the NotFound error     *)
(* naming the requested class, exactly when no node holds an unfiltered,   *)
(* compatible, live device; otherwise it succeeds, wherever the cursors    *)
(* stand.                                                                  *)
(***************************************************************************)
C5_NotFoundIffNoneEligible ==
    \A t \in Threads :
        Returning(t) =>
            LET none == \A n \in DOMAIN numaMap : EligibleOn(n, frame[t].params) = {}
            IN /\ none => frame[t].err = FabricNotFoundErr(frame[t].params.DevClass)
               /\ ~none => frame[t].err = NoErr /\ frame[t].fi # <<>>

\* The only eligible device sits on another node than the requested one,
\* and the search starts with the cursors moved by earlier calls.
C5_Witness ==
    \E t \in Threads :
        /\ Succeeded(t)
        /\ EligibleOn(frame[t].params.NUMANode, frame[t].params) = {}
        /\ frame[t].pre.currentNUMANode # 0
        /\ \E n \in DOMAIN frame[t].pre.currentNumaDevIdx :
               frame[t].pre.currentNumaDevIdx[n] # 0

(***************************************************************************)
(* C8: on a node that holds only a Manual device of the static             *)
(* configuration (no providers) that is unfiltered and live, GetDevice     *)
(* returns that device whatever class and provider are requested.          *)
(***************************************************************************)
C8_ManualBypass ==
    \A t \in Threads :
        LET n == frame[t].params.NUMANode
        IN (/\ Returning(t)
            /\ n \in DOMAIN numaMap
            /\ Len(numaMap[n]) = 1
            /\ numaMap[n][1].NetDevClass = FabricDevClassManual
            /\ numaMap[n][1].hw.isNil
            /\ ~IgnoredByFilter(numaMap[n][1].Name)
            /\ HasLiveAddress(numaMap[n][1].Name))
           => /\ frame[t].err = NoErr
              /\ frame[t].fi = <<numaMap[n][1]>>

\* The Manual device built from the configuration is returned for an
\* InfiniBand / verbs request, under an include filter.
C8_Witness ==
    \E t \in Threads :
        /\ Succeeded(t)
        /\ numaMap[frame[t].params.NUMANode] = <<ConfigFI("M", "")>>
        /\ frame[t].fi = <<ConfigFI("M", "")>>
        /\ frame[t].params.DevClass = Infiniband
        /\ frame[t].params.Provider = "verbs"
        /\ ~ifaceFilter.isNil

(***************************************************************************)
(* C9: a failed liveness validation is never GetDevice's result.  The call *)
(* ends with a device or with NotFound; a device that failed validation is *)
(* passed over and the scan goes on, so when the requested node also holds *)
(* an eligible device the call returns a live device of that node; and     *)
(* when every matching candidate on every node fails validation the error  *)
(* is NotFound.                                                            *)
(***************************************************************************)
C9_ValidationFailureSkips ==
    \A t \in Threads :
        Returning(t) =>
            LET f == frame[t]
                p == f.params
            IN /\ f.err \in {NoErr, FabricNotFoundErr(p.DevClass)}
               /\ \A name \in FailedValidations(t) : ~HasLiveAddress(name)
               /\ f.err = NoErr =>
                      /\ f.fi # <<>>
                      /\ HasLiveAddress(f.fi[1].Name)
                      /\ f.fi[1].Name \notin FailedValidations(t)
               /\ (FailedValidations(t) # {} /\ EligibleOn(p.NUMANode, p) # {}) =>
                      /\ f.err = NoErr
                      /\ Pick(f)[1] = p.NUMANode
               /\ (\A n \in DOMAIN numaMap : \A k \in MatchingOn(n, p) :
                       ~HasLiveAddress(numaMap[n][k].Name)) =>
                      f.err = FabricNotFoundErr(p.DevClass)

\* A (not live) was validated and passed over, and B (live) of the same
\* node is returned.
C9_Witness ==
    \E t \in Threads :
        /\ Succeeded(t)
        /\ "A" \in FailedValidations(t)
        /\ frame[t].fi[1].Name = "B"
        /\ frame[t].numaNode = frame[t].params.NUMANode
        /\ ~frame[t].inAny

(***************************************************************************)
(* The round robin the claims describe: from cursor c (from 0) over a list *)
(* of len devices whose eligible indices (from 1) are E, the next pick is  *)
(* the first eligible device at or after the cursor, wrapping, and the     *)
(* cursor then stands one past it.                                         *)
(***************************************************************************)
FirstEligibleFrom(E, len, c) ==
    CHOOSE e \in E : \A e2 \in E : ((e - 1) - c + len) % len <= ((e2 - 1) - c + len) % len

RECURSIVE ExpectedPicks(_, _, _, _)
ExpectedPicks(E, len, c, count) ==
    IF count = 0
    THEN <<>>
    ELSE LET e == FirstEligibleFrom(E, len, c)
         IN <<e - 1>> \o ExpectedPicks(E, len, e % len, count - 1)

\* The engine as construction left it: no cursor has moved.
FreshEngine(s) == s.currentNumaDevIdx = EmptyMap /\ s.currentNUMANode = 0

\* The device a pick stands for.
PickedName(pick) == numaMap[pick[1]][pick[2] + 1].Name

StreakNames == [j \in 1..Len(streak.picks) |->
                   IF streak.picks[j] = <<>> THEN "" ELSE PickedName(streak.picks[j])]

(***************************************************************************)
(* C2: with k >= 1 eligible devices on the requested node, successive      *)
(* GetDevice calls with one request return the node's eligible devices in  *)
(* list order, wrapping, from the first eligible device at or after the    *)
(* node's cursor: no device repeats within k successive calls and the      *)
(* first k calls return all k.  Node 0 = [A, B, C], all eligible, gives    *)
(* A, B, C, A on a fresh engine.                                           *)
(***************************************************************************)
C2_RoundRobinOrder ==
    LET n == watch.NUMANode
        E == EligibleOn(n, watch)
        k == Cardinality(E)
        len == getNumDevices(numaMap, n)
        c0 == DevIdx(streak.start.currentNumaDevIdx, n)
        L == Len(streak.picks)
        want == ExpectedPicks(E, len, c0, L)
    IN (L > 0 /\ k >= 1) =>
           /\ \A j \in 1..L : streak.picks[j] = <<n, want[j]>>
           /\ \A i, j \in 1..L : (i < j /\ j - i < k) => streak.picks[i] # streak.picks[j]
           /\ L >= k => {streak.picks[j][2] + 1 : j \in 1..k} = E
           /\ (/\ n = 0
               /\ FreshEngine(streak.start)
               /\ k = 3
               /\ L = 4
               /\ [j \in 1..3 |-> numaMap[0][j].Name] = <<"A", "B", "C">>)
              => StreakNames = <<"A", "B", "C", "A">>

\* Four calls over three eligible devices, begun with the cursor off its start.
C2_Witness ==
    /\ Len(streak.picks) = 4
    /\ Cardinality(EligibleOn(watch.NUMANode, watch)) = 3
    /\ DevIdx(streak.start.currentNumaDevIdx, watch.NUMANode) # 0

(***************************************************************************)
(* C6: node 0 holds no device of class Ether (it is absent, or holds only  *)
(* devices of another class), nodes 1 and 2 each hold exactly one live     *)
(* Ether device with provider tcp.  Two consecutive GetDevice(0, Ether,    *)
(* tcp) calls on a fresh engine both fall back and return the device of    *)
(* node 1 first and the device of node 2 second.                           *)
(***************************************************************************)
C6_FallbackNode1ThenNode2 ==
    LET p == FabricIfaceParams("", "", "tcp", Ether, 0)
    IN (/\ watch = p
        /\ FreshEngine(streak.start)
        /\ Len(streak.picks) >= 2
        /\ DOMAIN numaMap \ {0} = {1, 2}
        /\ \A k \in 1..getNumDevices(numaMap, 0) : numaMap[0][k].NetDevClass # Ether
        /\ Len(numaMap[1]) = 1 /\ EligibleOn(1, p) = {1}
        /\ Len(numaMap[2]) = 1 /\ EligibleOn(2, p) = {1})
       => /\ streak.picks[1] = <<1, 0>>
          /\ streak.picks[2] = <<2, 0>>

(***************************************************************************)
(* C7: with an exclude filter attached GetDevice never returns a device    *)
(* whose name is in the filter's set, and the round robin goes on over the *)
(* remaining devices in list order: node 0 = [A, B, C], all matching and   *)
(* live, with B excluded gives A, C, A on three successive calls.          *)
(***************************************************************************)
C7_ExcludeFilterRoundRobin ==
    LET excluding == /\ ~ifaceFilter.isNil
                     /\ ~ifaceFilter.setNil
                     /\ ifaceFilter.mode = filterModeExclude
        n == watch.NUMANode
        kept == IF n \in DOMAIN numaMap
                THEN {k \in EligibleOn(n, watch) : numaMap[n][k].Name \notin ifaceFilter.deviceSet}
                ELSE {}
        L == Len(streak.picks)
    IN excluding =>
           /\ \A t \in Threads :
                  Succeeded(t) => frame[t].fi[1].Name \notin ifaceFilter.deviceSet
           /\ \A j \in 1..L :
                  streak.picks[j] # <<>> => StreakNames[j] \notin ifaceFilter.deviceSet
           /\ (L > 0 /\ kept # {}) =>
                  streak.picks =
                      [j \in 1..L |->
                          <<n, ExpectedPicks(kept, getNumDevices(numaMap, n),
                                             DevIdx(streak.start.currentNumaDevIdx, n), L)[j]>>]
           /\ (/\ watch = FabricIfaceParams("", "", "tcp", Ether, 0)
               /\ FreshEngine(streak.start)
               /\ L >= 3
               /\ 0 \in DOMAIN numaMap
               /\ [j \in 1..Len(numaMap[0]) |-> numaMap[0][j].Name] = <<"A", "B", "C">>
               /\ ifaceFilter.deviceSet = {"B"}
               /\ \A name \in {"A", "C"} : HasLiveAddress(name))
              => SubSeq(StreakNames, 1, 3) = <<"A", "C", "A">>

\* Three calls on node 0 = [A, B, C] with B excluded, from a fresh engine.
C7_Witness ==
    /\ ifaceFilter = newDeviceFilter({"B"}, filterModeExclude)
    /\ watch = FabricIfaceParams("", "", "tcp", Ether, 0)
    /\ 0 \in DOMAIN numaMap
    /\ Len(numaMap[0]) = 3
    /\ FreshEngine(streak.start)
    /\ StreakNames = <<"A", "C", "A">>

(***************************************************************************)
(* C3: M concurrent callers of GetDevice(0, Ether, tcp) on a node 0 with k *)
(* eligible devices.  At most one caller at a time is between Lock and     *)
(* Unlock, so no two callers read or advance the cursor together; every    *)
(* pick is an eligible device of node 0; each eligible device is picked    *)
(* floor(M/k) or ceil(M/k) times, at least once when M >= k; and a device  *)
(* is not picked again within k successive picks.                          *)
(***************************************************************************)
InCriticalSection(t) ==
    \/ pc[t] \in {"scan", "advance", "any", "append"}
    \/ pc[t] = "ret" /\ frame[t].locked

C3_ConcurrentFairness ==
    LET E == EligibleOn(0, watch)
        k == Cardinality(E)
        M == Len(streak.picks)
        Count(e) == Cardinality({j \in 1..M : streak.picks[j] = <<0, e - 1>>})
    IN /\ \A t, u \in Threads : (InCriticalSection(t) /\ InCriticalSection(u)) => t = u
       /\ \A t \in Threads : InCriticalSection(t) => mutex.writer = t
       /\ (watch.NUMANode = 0 /\ M > 0 /\ k >= 1) =>
              /\ \A j \in 1..M : streak.picks[j] \in {<<0, e - 1>> : e \in E}
              /\ \A e \in E : Count(e) \in {M \div k, (M + k - 1) \div k}
              /\ M >= k => \A e \in E : Count(e) >= 1
              /\ \A i, j \in 1..M : (i < j /\ j - i < k) => streak.picks[i] # streak.picks[j]

\* Three calls have shared two eligible devices, and three callers are in
\* flight together: one scanning under the lock, two waiting for it.
C3_Witness ==
    /\ Len(streak.picks) = 3
    /\ Cardinality(EligibleOn(0, watch)) = 2
    /\ \E t \in Threads :
           /\ pc[t] = "advance"
           /\ \A u \in Threads \ {t} : pc[u] = "lock"

(***************************************************************************)
(* C10: GetDevice on a nil engine, with nil parameters or with an empty    *)
(* provider returns an error at once: the call never waits for or holds    *)
(* the lock, never calls the liveness validator, examines no device, and   *)
(* its one step leaves the inventory, the cursors, the filter and the lock *)
(* as they were.                                                           *)
(***************************************************************************)
BadArgs(f) == f.recvNil \/ f.params.isNil \/ f.params.Provider = ""

C10_BadArgsFailAtOnce ==
    /\ [](\A t \in Threads :
             (frame[t].op = "GetDevice" /\ BadArgs(frame[t])) =>
                 /\ pc[t] = "ret"
                 /\ frame[t].err # NoErr
                 /\ frame[t].fi = <<>>
                 /\ ~frame[t].locked
                 /\ mutex.writer # t
                 /\ frame[t].probed = {}
                 /\ frame[t].examined = 0)
    /\ [][\A t \in Threads :
             (pc[t] = "idle" /\ frame'[t].op = "GetDevice" /\ BadArgs(frame'[t])) =>
                 /\ pc'[t] = "ret"
                 /\ engine' = engine
                 /\ mutex' = mutex]_vars

\* A call with an empty provider has returned its error while another
\* caller holds the lock and a third waits for it.
C10_Witness ==
    \E t, u, v \in Threads :
        /\ pc[t] = "ret"
        /\ frame[t].op = "GetDevice"
        /\ ~frame[t].recvNil /\ ~frame[t].params.isNil /\ frame[t].params.Provider = ""
        /\ frame[t].err = ErrNew("provider is required")
        /\ pc[u] = "advance" /\ mutex.writer = u
        /\ pc[v] = "lock"

(***************************************************************************)
(* C14: a successful GetDevice call changes only the local cursor of the   *)
(* node its device sits on and, when the device was found by fallback, the *)
(* cross-node cursor: at its return the inventory is the one the call      *)
(* found, the local cursor of every other node, the nodes scanned without  *)
(* success included, reads as it did before the call, a local success      *)
(* leaves the cross-node cursor alone, and no step of the call changes the *)
(* inventory or the filter.                                                *)
(***************************************************************************)
InGetDevice(t) ==
    frame[t].op = "GetDevice" /\ pc[t] \in {"scan", "advance", "any", "ret"}

C14_OnlyCursorsChange ==
    /\ [](\A t \in Threads :
             Succeeded(t) =>
                 LET f == frame[t]
                 IN /\ numaMap = f.pre.numaMap
                    /\ \A n \in Nodes \ {f.numaNode} :
                           DevIdx(currentNumaDevIdx, n) = DevIdx(f.pre.currentNumaDevIdx, n)
                    /\ ~f.inAny => currentNUMANode = f.pre.currentNUMANode)
    /\ [][(\E t \in Threads : InGetDevice(t)) =>
              (numaMap' = numaMap /\ numaMapNil' = numaMapNil /\ ifaceFilter' = ifaceFilter)]_vars

\* A fallback found its device after scanning, without success, another node
\* whose cursor was not at its first device.
C14_Witness ==
    \E t \in Threads :
        /\ Succeeded(t)
        /\ frame[t].inAny
        /\ \E k \in 1..Len(frame[t].visited) :
               /\ frame[t].visited[k] # frame[t].numaNode
               /\ DevIdx(frame[t].pre.currentNumaDevIdx, frame[t].visited[k]) # 0

(***************************************************************************)
(* C18: the number of candidate devices one GetDevice call examines (the   *)
(* iterations of getDeviceFromNUMA's loop, each testing one device against *)
(* the filter, the class, the provider and the liveness validator) is at   *)
(* most the number of devices in the inventory.                            *)
(***************************************************************************)
RECURSIVE SumLens(_, _)
SumLens(map, nodes) ==
    IF nodes = {}
    THEN 0
    ELSE LET n == CHOOSE x \in nodes : TRUE
         IN Len(map[n]) + SumLens(map, nodes \ {n})

TotalDevices == SumLens(numaMap, DOMAIN numaMap)

C18_ExaminesAtMostTotal ==
    \A t \in Threads :
        frame[t].op = "GetDevice" => frame[t].examined <= TotalDevices

(***************************************************************************)
(* C19: after a successful fallback the cross-node cursor designates the   *)
(* node the device was found on, and the next fallback search starts at    *)
(* the populated node that follows that node in ascending node-id order,   *)
(* wrapping, and visits every populated node at most once (all of them     *)
(* when it finds nothing), also when Add has introduced a node id between  *)
(* the two calls.                                                          *)
(***************************************************************************)
\* The populated node after node p in ascending order, wrapping.
FollowingNode(p, populated) ==
    IF \E x \in populated : x > p
    THEN CHOOSE x \in populated : x > p /\ \A y \in populated : y > p => x <= y
    ELSE CHOOSE x \in populated : \A y \in populated : x <= y

\* The position of node n among the populated nodes in ascending order.
RankOf(n, populated) == Cardinality({x \in populated : x < n})

C19_FallbackStartsAfterLast ==
    \A t \in Threads :
        (Returning(t) /\ frame[t].visited # <<>>) =>
            LET f == frame[t]
                populated == DOMAIN numaMap
            IN /\ f.err = NoErr => currentNUMANode = RankOf(f.numaNode, populated)
               /\ f.prevFallback # NoNode =>
                      f.visited[1] = FollowingNode(f.prevFallback, populated)
               /\ \A i, j \in 1..Len(f.visited) : i # j => f.visited[i] # f.visited[j]
               /\ f.err # NoErr => {f.visited[k] : k \in 1..Len(f.visited)} = populated

(***************************************************************************)
(* C20: for the watched request with k >= 1 eligible, live devices on its  *)
(* node, any k GetDevice calls for that request return k distinct devices, *)
(* also when calls for other requests execute between them: on the record  *)
(* of returned devices, two calls for the watched request that returned    *)
(* the same device have at least k calls for the watched request from the  *)
(* first of them up to the second.                                         *)
(***************************************************************************)
WatchedCalls(i, j) == {m \in i..j : mixed.calls[m].watched}

C20_DistinctDespiteOtherRequests ==
    LET k == Cardinality(EligibleOn(watch.NUMANode, watch))
    IN k >= 1 =>
           \A i, j \in 1..Len(mixed.calls) :
               (/\ i < j
                /\ mixed.calls[i].watched /\ mixed.calls[j].watched
                /\ mixed.calls[i].pick = mixed.calls[j].pick)
                   => Cardinality(WatchedCalls(i, j - 1)) >= k

(***************************************************************************)
(* C20 as amended: the same, for calls of any callers in any interleaving, *)
(* provided no call for another request returned a device of the watched   *)
(* request's node between the two calls.                                   *)
(***************************************************************************)
C20_DistinctUnlessNodeServedOther ==
    LET k == Cardinality(EligibleOn(watch.NUMANode, watch))
    IN k >= 1 =>
           \A i, j \in 1..Len(mixed.calls) :
               (/\ i < j
                /\ mixed.calls[i].watched /\ mixed.calls[j].watched
                /\ mixed.calls[i].pick = mixed.calls[j].pick
                /\ \A m \in (i + 1)..(j - 1) :
                       mixed.calls[m].watched \/ mixed.calls[m].pick[1] # watch.NUMANode)
                   => Cardinality(WatchedCalls(i, j - 1)) >= k

\* Calls for the watched request with two eligible devices returned both of
\* them, with a call for another request, served by another node, between
\* them, while both callers are in flight again.
C20_Witness ==
    /\ Cardinality(EligibleOn(watch.NUMANode, watch)) = 2
    /\ Len(mixed.calls) >= 3
    /\ \E i \in 1..(Len(mixed.calls) - 2) :
           /\ mixed.calls[i].watched
           /\ ~mixed.calls[i + 1].watched
           /\ mixed.calls[i + 1].pick[1] # watch.NUMANode
           /\ mixed.calls[i + 2].watched
           /\ mixed.calls[i].pick # mixed.calls[i + 2].pick
    /\ \E t, u \in Threads : t # u /\ pc[t] = "advance" /\ pc[u] = "lock"

(***************************************************************************)
(* The inventory's entries, by where they sit, for the claims on Find and  *)
(* FindDevice.                                                             *)
(***************************************************************************)
Slots == UNION {{<<n, k>> : k \in 1..Len(numaMap[n])} : n \in DOMAIN numaMap}
EntryAt(slot) == numaMap[slot[1]][slot[2]]

\* list holds the entries at the slots, one for each slot, in some order.
ListsSlots(list, slots) ==
    /\ Len(list) = Cardinality(slots)
    /\ \A v \in {EntryAt(x) : x \in slots} \cup {list[i] : i \in 1..Len(list)} :
           Cardinality({i \in 1..Len(list) : list[i] = v})
               = Cardinality({x \in slots : EntryAt(x) = v})

NamedSlots(name) == {x \in Slots : EntryAt(x).Name = name}

(***************************************************************************)
(* C11: FindDevice refines Find(name) in order: a non-empty domain keeps   *)
(* the entries of that domain (or of no domain and that name) and fails    *)
(* naming the domain when none is left; then a non-empty provider keeps    *)
(* the entries that support it or are Manual and fails naming the provider *)
(* when none is left.  With ib0 present as (domain ib0, verbs) and (domain *)
(* ib0d1, tcp), FindDevice{ib0, provider tcp} returns exactly the ib0d1    *)
(* entry and FindDevice{ib0, domain nope} fails naming domain nope.        *)
(***************************************************************************)
C11_FindDeviceRefinesInOrder ==
    \A t \in Threads :
        (/\ pc[t] = "ret" /\ frame[t].op = "FindDevice"
         /\ ~frame[t].recvNil /\ ~frame[t].params.isNil) =>
            LET f == frame[t]
                q == f.params
                named == NamedSlots(q.Interface)
                inDomain == IF q.Domain = ""
                            THEN named
                            ELSE {x \in named :
                                    \/ EntryAt(x).Domain = q.Domain
                                    \/ EntryAt(x).Domain = "" /\ EntryAt(x).Name = q.Domain}
                kept == IF q.Provider = ""
                        THEN inDomain
                        ELSE {x \in inDomain :
                                \/ ~EntryAt(x).hw.isNil /\ q.Provider \in EntryAt(x).hw.Providers
                                \/ EntryAt(x).NetDevClass = FabricDevClassManual}
                ib0 == ScanFI("ib0", "ib0", Infiniband, {"verbs"})
                ib0d1 == ScanFI("ib0", "ib0d1", Infiniband, {"tcp"})
            IN /\ named = {} => f.err = <<"fabric interface not found", q.Interface>>
               /\ (named # {} /\ inDomain = {}) =>
                      f.err = <<"fabric interface doesn't have requested domain",
                                q.Interface, q.Domain>>
               /\ (inDomain # {} /\ kept = {}) =>
                      f.err = <<"fabric interface doesn't support provider",
                                q.Interface, q.Provider>>
               /\ kept = {} => f.fiList = <<>>
               /\ kept # {} => f.err = NoErr /\ ListsSlots(f.fiList, kept)
               /\ {EntryAt(x) : x \in NamedSlots("ib0")} = {ib0, ib0d1} =>
                      /\ (q.Interface = "ib0" /\ q.Domain = "" /\ q.Provider = "tcp")
                             => f.fiList = <<ib0d1>> /\ f.err = NoErr
                      /\ (q.Interface = "ib0" /\ q.Domain = "nope")
                             => f.fiList = <<>> /\ f.err # NoErr /\ f.err[3] = "nope"

\* FindDevice{ib0, provider tcp} has returned the ib0d1 entry alone.
C11_Witness ==
    \E t \in Threads :
        /\ pc[t] = "ret" /\ frame[t].op = "FindDevice" /\ ~frame[t].recvNil
        /\ frame[t].params = FabricIfaceParams("ib0", "", "tcp", NetDevClassZero, 0)
        /\ Cardinality(NamedSlots("ib0")) = 2
        /\ frame[t].fiList = <<ScanFI("ib0", "ib0d1", Infiniband, {"tcp"})>>

(***************************************************************************)
(* C12: Find(name) returns the inventory's entries of that name, across    *)
(* all nodes, one result for each entry; it fails with its not-found error *)
(* exactly when there is none; and it changes neither the inventory nor a  *)
(* cursor.                                                                 *)
(***************************************************************************)
C12_FindReturnsEveryEntryNamed ==
    /\ [](\A t \in Threads :
             (pc[t] = "ret" /\ frame[t].op = "Find" /\ ~frame[t].recvNil) =>
                 LET f == frame[t]
                     named == NamedSlots(f.name)
                 IN /\ ListsSlots(f.fiList, named)
                    /\ f.err # NoErr <=> named = {}
                    /\ named = {} => f.err = <<"fabric interface not found", f.name>>)
    /\ [][\A t \in Threads :
             (frame'[t].op = "Find" /\ pc'[t] # pc[t] /\ pc'[t] \in {"find", "ret"})
                 => engine' = engine /\ mutex' = mutex]_vars

\* Find has returned two entries of one name that sit on different nodes.
C12_Witness ==
    \E t \in Threads :
        /\ pc[t] = "ret" /\ frame[t].op = "Find"
        /\ Len(frame[t].fiList) = 2
        /\ frame[t].fiList[1].Domain # frame[t].fiList[2].Domain
        /\ \E x, y \in NamedSlots(frame[t].name) : x[1] # y[1]

(***************************************************************************)
(* C13: the entities GetDevice, Find and FindDevice return are copies: a   *)
(* caller's write to the name, domain or class of an entity it holds       *)
(* leaves the inventory as it was, no inventory entry ever carries a       *)
(* written value, and every call returns entities equal to the inventory's *)
(* entries.                                                                *)
(***************************************************************************)
Returned(f) == IF f.op = "GetDevice" THEN f.fi ELSE f.fiList

C13_ReturnedEntitiesAreCopies ==
    /\ [](\A x \in Slots :
             /\ EntryAt(x).Name # "zz"
             /\ EntryAt(x).Domain # "changed"
             /\ EntryAt(x).NetDevClass # NetDevClassZero)
    /\ [](\A t \in Threads :
             (pc[t] = "ret" /\ frame[t].op \in {"GetDevice", "Find", "FindDevice"}) =>
                 \A k \in 1..Len(Returned(frame[t])) :
                     \E x \in Slots : EntryAt(x) = Returned(frame[t])[k])
    /\ [][\A t \in Threads :
             (pc[t] = "hold" /\ pc'[t] = "hold" /\ frame'[t] # frame[t])
                 => numaMap' = numaMap]_vars

\* One caller has overwritten the name, the domain and the class of an
\* entity it holds, and a call of another caller has returned that entry
\* with its original values.
C13_Witness ==
    \E t, u \in Threads :
        /\ pc[t] = "hold"
        /\ \E k \in 1..Len(Returned(frame[t])) :
               Returned(frame[t])[k] =
                   [ScanFI("zz", "changed", NetDevClassZero, {"tcp"}) EXCEPT !.hw = HW({"tcp"})]
        /\ pc[u] = "ret" /\ frame[u].op \in {"GetDevice", "Find"}
        /\ \E k \in 1..Len(Returned(frame[u])) :
               Returned(frame[u])[k] = ScanFI("ib0", "ib0d1", Infiniband, {"tcp"})

(***************************************************************************)
(* C15: one readers-writer lock guards every access to the inventory and   *)
(* the cursors.  A caller inside Add, GetDevice or a LockedMap scope is    *)
(* the writer of the mutex; a caller inside NumDevices, NumNUMANodes or an *)
(* RLockedMap scope is one of its readers; a caller of Find or FindDevice  *)
(* that is reading the inventory holds the mutex, and no other caller is   *)
(* then at Add's append or inside a LockedMap scope.                       *)
(***************************************************************************)
HoldsExclusive(t) ==
    \/ pc[t] \in {"scan", "advance", "any", "append"}
    \/ pc[t] = "ret" /\ frame[t].op \in {"GetDevice", "Add"} /\ frame[t].locked
    \/ pc[t] \in {"mapCheck", "hold"} /\ frame[t].op = "LockedMap"

HoldsShared(t) ==
    \/ pc[t] \in {"count", "rret"}
    \/ pc[t] \in {"mapCheck", "hold"} /\ frame[t].op = "RLockedMap"

C15_EveryAccessUnderLock ==
    /\ \A t \in Threads : HoldsExclusive(t) => mutex.writer = t /\ mutex.readers = {}
    /\ \A t \in Threads : HoldsShared(t) => t \in mutex.readers /\ mutex.writer = NoThread
    /\ \A t \in Threads :
           pc[t] = "find" =>
               /\ mutex.writer = t \/ t \in mutex.readers
               /\ \A u \in Threads \ {t} :
                      /\ pc[u] # "append"
                      /\ ~(pc[u] = "hold" /\ frame[u].op = "LockedMap")

(***************************************************************************)
(* C16: LockedMap and RLockedMap fail exactly when the engine is nil or    *)
(* its numaMap is nil, and a failed call does not hold the mutex.  A call  *)
(* that succeeded holds the mutex (as writer for LockedMap, as a reader    *)
(* for RLockedMap) until its release runs; while it holds it no Add or     *)
(* GetDevice is between its Lock and its Unlock and the inventory and the  *)
(* cursors do not change; the release takes the caller out of the mutex,   *)
(* and the mutex is free whenever no call is inside a locked section.      *)
(***************************************************************************)
MapScopeOps == {"LockedMap", "RLockedMap"}
InMapScope(t) == pc[t] = "hold" /\ frame[t].op \in MapScopeOps
MapCallFailed(t) == pc[t] = "ret" /\ frame[t].op \in MapScopeOps
InAddOrGetDevice(t) ==
    \/ pc[t] \in {"scan", "advance", "any", "append"}
    \/ pc[t] = "ret" /\ frame[t].op \in {"GetDevice", "Add"} /\ frame[t].locked

C16_State ==
    /\ \A t \in Threads :
           MapCallFailed(t) =>
               /\ frame[t].err # NoErr
               /\ frame[t].recvNil \/ numaMapNil
               /\ mutex.writer # t /\ t \notin mutex.readers
    /\ \A t \in Threads :
           InMapScope(t) =>
               /\ frame[t].err = NoErr
               /\ ~frame[t].recvNil /\ ~numaMapNil
               /\ IF frame[t].op = "LockedMap"
                  THEN mutex.writer = t /\ mutex.readers = {}
                  ELSE t \in mutex.readers /\ mutex.writer = NoThread
               /\ \A u \in Threads : ~InAddOrGetDevice(u)
    /\ (\A t \in Threads : ~HoldsExclusive(t) /\ ~HoldsShared(t)) => MutexFree

C16_Step ==
    /\ (\E t \in Threads : InMapScope(t) /\ InMapScope(t)') => engine' = engine
    /\ \A t \in Threads :
           (InMapScope(t) /\ pc'[t] = "idle") =>
               mutex'.writer # t /\ t \notin mutex'.readers

C16_ScopedMapAccess == [](C16_State) /\ [][C16_Step]_vars

\* The numaMap is nil: t1's LockedMap and t2's RLockedMap have failed, and
\* t3's GetDevice has taken the lock after them.
C16_Witness ==
    /\ numaMapNil
    /\ MapCallFailed("t1") /\ frame["t1"].op = "LockedMap" /\ ~frame["t1"].recvNil
    /\ MapCallFailed("t2") /\ frame["t2"].op = "RLockedMap" /\ ~frame["t2"].recvNil
    /\ frame["t3"].op = "GetDevice" /\ mutex.writer = "t3"

\* t1 is inside a LockedMap scope while t2's Add and t3's GetDevice wait
\* for the lock.
C16_HeldScope ==
    /\ InMapScope("t1") /\ frame["t1"].op = "LockedMap"
    /\ pc["t2"] = "addLock"
    /\ pc["t3"] = "lock"

(***************************************************************************)
(* C17: a configuration whose exclude_fabric_ifaces and                    *)
(* include_fabric_ifaces are both non-empty never gets past validation: it *)
(* is never loaded and never served, its start-up ends failed with the     *)
(* error of the two sets, no filter made of either set reaches the engine  *)
(* and no request is served.  A served configuration with one set has      *)
(* that set, in its own mode, as the engine's filter.                      *)
(***************************************************************************)
BothSets(cfg) == cfg.ExcludeFabricIfaces # {} /\ cfg.IncludeFabricIfaces # {}

C17_State ==
    /\ BothSets(agent.cfg) =>
           /\ agent.phase \in {"start", "failed"}
           /\ agent.phase = "failed" => agent.err # NoErr
           /\ ifaceFilter.isNil
           /\ \A t \in Threads : pc[t] = "idle"
    /\ agent.phase = "serving" =>
           /\ agent.cfg.ExcludeFabricIfaces # {} =>
                  /\ ~ifaceFilter.isNil
                  /\ ifaceFilter.mode = filterModeExclude
                  /\ ifaceFilter.deviceSet = agent.cfg.ExcludeFabricIfaces
           /\ agent.cfg.IncludeFabricIfaces # {} =>
                  /\ ~ifaceFilter.isNil
                  /\ ifaceFilter.mode = filterModeInclude
                  /\ ifaceFilter.deviceSet = agent.cfg.IncludeFabricIfaces
    /\ \A t \in Threads : pc[t] # "idle" => agent.phase = "serving"

C17_Step == BothSets(agent.cfg) => (agent'.phase = "failed" /\ agent'.cfg = agent.cfg)

FailedNotFound(t) ==
    /\ pc[t] = "ret"
    /\ frame[t].op = "GetDevice"
    /\ frame[t].locked
    /\ frame[t].err = FabricNotFoundErr(frame[t].params.DevClass)

\* The full scans of node n a failed call made: one of the requested node,
\* when it has devices, and one for each turn of the fallback to n.
Turns(f, n) ==
    (IF n = f.params.NUMANode THEN 1 ELSE 0)
        + Cardinality({k \in 1..Len(f.visited) : f.visited[k] = n})

CursorsRestored(t) ==
    /\ numaMap = frame[t].pre.numaMap
    /\ \A n \in Nodes :
           DevIdx(currentNumaDevIdx, n) = DevIdx(frame[t].pre.currentNumaDevIdx, n)
    /\ currentNUMANode = frame[t].pre.currentNUMANode

OneTurnOverNodes(t) ==
    /\ Len(frame[t].visited) = Cardinality(DOMAIN numaMap)
    /\ {frame[t].visited[k] : k \in 1..Len(frame[t].visited)} = DOMAIN numaMap

C22_FailedCallLeavesEngine ==
    \A t \in Threads :
        FailedNotFound(t) =>
            /\ CursorsRestored(t)
            /\ OneTurnOverNodes(t)
            /\ \A n \in DOMAIN numaMap : Turns(frame[t], n) = 1

(***************************************************************************)
(* C23: Add on a present engine succeeds and fails only on a nil engine;   *)
(* its append puts the entity at the end of the node's list and leaves the *)
(* entries that were there, the other nodes and the cursors as they were.  *)
(* In every state reached through the builders and Add no node of the      *)
(* inventory has an empty list, and NumDevices(node) is 0 exactly for the  *)
(* nodes that are not in the inventory.                                    *)
(***************************************************************************)
AddReturning(t) == pc[t] = "ret" /\ frame[t].op = "Add"

\* What was at node n of an inventory, as a list.
ListAt(map, n) == IF n \in DOMAIN map THEN map[n] ELSE <<>>

C23_State ==
    /\ \A n \in DOMAIN numaMap : Len(numaMap[n]) > 0
    /\ \A t \in Threads :
           AddReturning(t) =>
               /\ frame[t].err = NoErr <=> ~frame[t].recvNil
               /\ ~frame[t].recvNil =>
                      LET pre == frame[t].pre
                          n == frame[t].addNode
                      IN /\ DOMAIN numaMap = DOMAIN pre.numaMap \cup {n}
                         /\ numaMap[n] = ListAt(pre.numaMap, n) \o frame[t].addFI
                         /\ SubSeq(numaMap[n], 1, Len(numaMap[n]) - 1) = ListAt(pre.numaMap, n)
                         /\ numaMap[n][Len(numaMap[n])] = frame[t].addFI[1]
                         /\ \A m \in DOMAIN pre.numaMap \ {n} : numaMap[m] = pre.numaMap[m]
                         /\ currentNumaDevIdx = pre.currentNumaDevIdx
                         /\ currentNUMANode = pre.currentNUMANode
    /\ \A t \in Threads :
           (pc[t] = "rret" /\ frame[t].op = "NumDevices") =>
               /\ frame[t].count = 0 <=> frame[t].numaNode \notin DOMAIN numaMap
               /\ frame[t].count = Len(ListAt(numaMap, frame[t].numaNode))

C23_Step ==
    \A t \in Threads :
        (pc[t] = "append" /\ pc'[t] = "ret") =>
            /\ frame'[t].err = NoErr
            /\ Len(ListAt(numaMap', frame[t].addNode))
                   = Len(ListAt(numaMap, frame[t].addNode)) + 1
            /\ currentNumaDevIdx' = currentNumaDevIdx
            /\ currentNUMANode' = currentNUMANode

C23_AddAppendsAndNoEmptyNode == [](C23_State) /\ [][C23_Step]_vars

\* Add has appended C behind the two devices of node 1, whose cursor a
\* GetDevice call had moved before.
C23_Witness ==
    /\ AddReturning("t1") /\ ~frame["t1"].recvNil
    /\ 1 \in DOMAIN numaMap
    /\ Len(numaMap[1]) = 3
    /\ numaMap[1][3].Name = "C"
    /\ DevIdx(currentNumaDevIdx, 1) = 1

(***************************************************************************)
(* C24: ShouldIgnore is false for every name when the filter is nil or its *)
(* device set is nil; an exclude filter ignores exactly the names of its   *)
(* set and an include filter exactly the names outside its set.  So a      *)
(* GetDevice call returns only names the filter admits (with an include    *)
(* filter, only names of its set), and fails with FabricNotFoundErr only   *)
(* when no compatible, live device has a name the filter admits.           *)
(***************************************************************************)
FilterAbsent == ifaceFilter.isNil \/ ifaceFilter.setNil
Excluding == ~FilterAbsent /\ ifaceFilter.mode = filterModeExclude
Including == ~FilterAbsent /\ ifaceFilter.mode = filterModeInclude

Admitted(name) ==
    /\ Excluding => name \notin ifaceFilter.deviceSet
    /\ Including => name \in ifaceFilter.deviceSet

C24_ShouldIgnoreByMode ==
    /\ \A name \in Names :
           /\ FilterAbsent => ~ShouldIgnore(ifaceFilter, name)
           /\ Excluding => (ShouldIgnore(ifaceFilter, name) <=> name \in ifaceFilter.deviceSet)
           /\ Including => (ShouldIgnore(ifaceFilter, name) <=> name \notin ifaceFilter.deviceSet)
    /\ \A t \in Threads :
           Returning(t) =>
               /\ Succeeded(t) => Admitted(frame[t].fi[1].Name)
               /\ (Succeeded(t) /\ Including) =>
                      frame[t].fi[1].Name \in ifaceFilter.deviceSet
               /\ frame[t].err = FabricNotFoundErr(frame[t].params.DevClass) =>
                      \A n \in DOMAIN numaMap : \A k \in 1..Len(numaMap[n]) :
                          ~(/\ Admitted(numaMap[n][k].Name)
                            /\ Compatible(numaMap[n][k], frame[t].params)
                            /\ HasLiveAddress(numaMap[n][k].Name))

\* With the include filter {A, M} on node 0 = [A, B], a call that started
\* at B has passed over it and returns A.
C24_Witness ==
    /\ Including
    /\ ifaceFilter.deviceSet = {"A", "M"}
    /\ Succeeded("t1")
    /\ frame["t1"].fi[1].Name = "A"
    /\ frame["t1"].examined = 2
    /\ numaMap[0][2].Name = "B"

\* A filter without a device set, in include mode, has let a device through.
C24_NoSetAdmits ==
    /\ ~ifaceFilter.isNil /\ ifaceFilter.setNil
    /\ ifaceFilter.mode = filterModeInclude
    /\ Succeeded("t1")

=============================================================================
